---- MODULE Spec2Model ----
(***************************************************************************)
(* Model of the dynamo-table expression compiler and command builders.     *)
(*                                                                         *)
(* JavaScript strings are modelled as sequences of one-character strings,  *)
(* so that split('.'), trim(), startsWith('('), join(...) and template     *)
(* literals are computed the way the code computes them.  JavaScript       *)
(* objects used as maps (names, values, ExpressionAttributeNames, ...) are *)
(* functions from keys (character sequences) to values.  An updates map,   *)
(* whose iteration order matters, is a sequence of <<key, value>> pairs    *)
(* with distinct keys.                                                     *)
(***************************************************************************)
EXTENDS Integers, Sequences, FiniteSets, TLC

VARIABLES builder, call, result, bound, cmd, pool, pager

vars == <<builder, call, result, bound, cmd, pool, pager>>

----------------------------------------------------------------------------
(* Bounds of the model *)

\* most values one builder binds in a run
MaxValues == 3
\* longest list handed to in()
MaxInLen == 2
\* most fragments handed to and() / or()
MaxConds == 2
\* most keys of an updates map
MaxUpdates == 2
MaxProjection == 2
MaxRequests == 26
MaxPages == 3
MaxSends == 4

----------------------------------------------------------------------------
(* Values *)

Undef == "undefined"
Null == "null"
\* literals a caller binds
Literals == {"x", "y"}
\* operands of the comparison, function and size methods
Operands == {"x"}
\* entries of a list handed to in()
InEntries == {"x", Undef, Null}

----------------------------------------------------------------------------
(* Strings as character sequences *)

WS == {" "}

EmptyMap == [k \in {} |-> ""]

SeqsUpTo(S, n) == UNION {[1..m -> S] : m \in 0..n}

RECURSIVE Split(_, _)
\* String.prototype.split(sep) for a one-character separator
Split(s, sep) ==
  IF \E i \in 1..Len(s) : s[i] = sep
  THEN LET i == CHOOSE i \in 1..Len(s) :
                  s[i] = sep /\ \A j \in 1..(i - 1) : s[j] # sep
       IN <<SubSeq(s, 1, i - 1)>> \o Split(SubSeq(s, i + 1, Len(s)), sep)
  ELSE <<s>>

RECURSIVE TrimStart(_)
TrimStart(s) ==
  IF Len(s) > 0 /\ s[1] \in WS THEN TrimStart(Tail(s)) ELSE s

RECURSIVE TrimEnd(_)
TrimEnd(s) ==
  IF Len(s) > 0 /\ s[Len(s)] \in WS THEN TrimEnd(SubSeq(s, 1, Len(s) - 1)) ELSE s

\* String.prototype.trim()
Trim(s) == TrimEnd(TrimStart(s))

RECURSIVE Join(_, _)
\* Array.prototype.join(sep)
Join(parts, sep) ==
  IF Len(parts) = 0 THEN <<>>
  ELSE IF Len(parts) = 1 THEN parts[1]
  ELSE parts[1] \o sep \o Join(Tail(parts), sep)

StartsWith(s, c) == Len(s) > 0 /\ s[1] = c
EndsWith(s, c) == Len(s) > 0 /\ s[Len(s)] = c

Digits == <<"0", "1", "2", "3", "4", "5", "6", "7", "8", "9">>

RECURSIVE Decimal(_)
\* the decimal rendering of a number inside a template literal
Decimal(n) ==
  IF n < 10 THEN <<Digits[n + 1]>>
  ELSE Decimal(n \div 10) \o <<Digits[(n % 10) + 1]>>

\* string constants of the source
StrAND == <<" ", "A", "N", "D", " ">>
StrOR == <<" ", "O", "R", " ">>
StrNOT == <<"N", "O", "T", " ">>
StrBETWEEN == <<" ", "B", "E", "T", "W", "E", "E", "N", " ">>
StrIN == <<" ", "I", "N", " ", "(">>
StrCommaSp == <<",", " ">>
StrEq == <<" ", "=", " ">>
StrSET == <<"S", "E", "T", " ">>
StrREMOVE == <<"R", "E", "M", "O", "V", "E", " ">>
StrVal == <<":", "v", "a", "l">>
StrPk == <<":", "p", "k">>

----------------------------------------------------------------------------
(* JavaScript objects used as maps *)

Has(m, k) == k \in DOMAIN m

\* !m[k] of the source: the key is absent or holds the empty string
Falsy(m, k) == ~Has(m, k) \/ m[k] = <<>>

\* m[k] = v
Put(m, k, v) == (k :> v) @@ m

\* { ...a, ...b }
Spread(a, b) == b @@ a

\* Object.keys(m).length
Size(m) == Cardinality(DOMAIN m)

----------------------------------------------------------------------------
(* Results of a call: a returned string or a thrown error *)

Ok(s) == [kind |-> "ok", val |-> s, err |-> ""]
Throw(msg) == [kind |-> "throw", val |-> <<>>, err |-> msg]
NoResult == [kind |-> "none", val |-> <<>>, err |-> ""]

----------------------------------------------------------------------------
(* The expression builder: createExpressionBuilder *)

\* a fresh builder: names = {}, values = {}, counter = 0
NewBuilder == [names |-> EmptyMap, values |-> EmptyMap, counter |-> 0]

NonEmpty(s) == s # <<>>

\* attr.split('.').map(s => s.trim()).filter(Boolean)
Segments(attr) ==
  LET raw == Split(attr, ".")
      trimmed == [i \in 1..Len(raw) |-> Trim(raw[i])]
  IN SelectSeq(trimmed, NonEmpty)

NameKey(seg) == <<"#">> \o seg

RECURSIVE Register(_, _)
\* segs.map(seg => { if (!names[key]) names[key] = seg; ... }): the names map afterwards
Register(names, segs) ==
  IF Len(segs) = 0 THEN names
  ELSE LET key == NameKey(segs[1])
       IN Register(IF Falsy(names, key) THEN Put(names, key, segs[1]) ELSE names,
                   Tail(segs))

\* the path under one '#': '#s1.s2...'
RefHashOnce(segs) == <<"#">> \o Join(segs, <<".">>)

\* the dotted reference '#s1.#s2...'
Ref(segs) == Join([i \in 1..Len(segs) |-> NameKey(segs[i])], <<".">>)

\* the path registered whole, under one placeholder, without being split
getAttrNameUnsplit(b, attr) ==
  LET whole == Trim(attr)
  IN [b |-> [b EXCEPT !.names =
               IF Falsy(b.names, NameKey(whole)) THEN Put(b.names, NameKey(whole), whole)
               ELSE b.names],
      ret |-> NameKey(whole)]

\* getAttrName: returns the reference and the names map it leaves behind
getAttrName(b, attr) ==
  LET segments == Segments(attr)
  IN IF Len(segments) = 0
     THEN [b |-> [b EXCEPT !.names =
                     IF Falsy(b.names, <<"#">>) THEN Put(b.names, <<"#">>, <<>>) ELSE b.names],
           ret |-> <<"#">>]
     ELSE [b |-> [b EXCEPT !.names = Register(b.names, segments)],
           ret |-> Ref(segments)]

ValKey(n) == StrVal \o Decimal(n)

\* getValueName: key = `:val${counter++}`; values[key] = value
getValueName(b, value) ==
  LET key == ValKey(b.counter)
  IN [b |-> [b EXCEPT !.values = Put(b.values, key, value),
                      !.counter = b.counter + 1],
      ret |-> key]

RECURSIVE MapValueName(_, _)
\* filtered.map(getValueName): binds the entries left to right
MapValueName(b, vs) ==
  IF Len(vs) = 0 THEN [b |-> b, ret |-> <<>>]
  ELSE LET first == getValueName(b, vs[1])
           rest == MapValueName(first.b, Tail(vs))
       IN [b |-> rest.b, ret |-> <<first.ret>> \o rest.ret]

\* compare(op)(attr, value)
compare(b, op, attr, value) ==
  LET a == getAttrName(b, attr)
      v == getValueName(a.b, value)
  IN [b |-> v.b, res |-> Ok(a.ret \o <<" ">> \o op \o <<" ">> \o v.ret)]

\* sizeCompare(op)(attr, value)
sizeCompare(b, op, attr, value) ==
  LET a == getAttrName(b, attr)
      v == getValueName(a.b, value)
  IN [b |-> v.b,
      res |-> Ok(<<"s", "i", "z", "e", "(">> \o a.ret \o <<")", " ">> \o op \o <<" ">> \o v.ret)]

\* a single fragment handed back as it is, without the added pair
logicalBare(b, op, name, conditions) ==
  IF Len(conditions) = 0
  THEN [b |-> b, res |-> Throw(IF name = "and"
                               THEN "TypeError: and() requires at least one condition"
                               ELSE "TypeError: or() requires at least one condition")]
  ELSE IF Len(conditions) = 1 THEN [b |-> b, res |-> Ok(conditions[1])]
  ELSE [b |-> b, res |-> Ok(<<"(">> \o Join(conditions, op) \o <<")">>)]

\* logical(op, name)(...conditions)
logical(b, op, name, conditions) ==
  IF Len(conditions) = 0
  THEN [b |-> b, res |-> Throw(IF name = "and"
                               THEN "TypeError: and() requires at least one condition"
                               ELSE "TypeError: or() requires at least one condition")]
  ELSE [b |-> b, res |-> Ok(<<"(">> \o Join(conditions, op) \o <<")">>)]

\* fn(funcName)(attr, value)
fn(b, funcName, attr, value) ==
  LET a == getAttrName(b, attr)
      v == getValueName(a.b, value)
  IN [b |-> v.b, res |-> Ok(funcName \o <<"(">> \o a.ret \o StrCommaSp \o v.ret \o <<")">>)]

\* a name-only call that takes a value index without binding a value
singleAttributeFunctionCounting(b, funcName, attr) ==
  LET a == getAttrName(b, attr)
  IN [b |-> [a.b EXCEPT !.counter = @ + 1], res |-> Ok(funcName \o <<"(">> \o a.ret \o <<")">>)]

\* singleAttributeFunction(funcName)(attr)
singleAttributeFunction(b, funcName, attr) ==
  LET a == getAttrName(b, attr)
  IN [b |-> a.b, res |-> Ok(funcName \o <<"(">> \o a.ret \o <<")">>)]

\* the end bound before the start
betweenEndFirst(b, attr, start, end) ==
  LET a == getAttrName(b, attr)
      e == getValueName(a.b, end)
      s == getValueName(e.b, start)
  IN [b |-> s.b, res |-> Ok(a.ret \o StrBETWEEN \o s.ret \o StrAND \o e.ret)]

\* between(attr, start, end)
between(b, attr, start, end) ==
  LET a == getAttrName(b, attr)
      s == getValueName(a.b, start)
      e == getValueName(s.b, end)
  IN [b |-> e.b, res |-> Ok(a.ret \o StrBETWEEN \o s.ret \o StrAND \o e.ret)]

Defined(v) == v # Undef

\* the attribute resolved before the list is looked at
inResolvingFirst(b, attr, values) ==
  LET filtered == SelectSeq(values, Defined)
      a == getAttrName(b, attr)
  IN IF Len(filtered) = 0
     THEN [b |-> a.b,
           res |-> Throw(IF Len(values) # 0
                         THEN "TypeError: in() requires at least one non-undefined value"
                         ELSE "TypeError: in() requires at least one value")]
     ELSE LET vs == MapValueName(a.b, filtered)
          IN [b |-> vs.b,
              res |-> Ok(a.ret \o StrIN \o Join(vs.ret, StrCommaSp) \o <<")">>)]

\* one message for the empty list and the list of undefined alike
inOneMessage(b, attr, values) ==
  LET filtered == SelectSeq(values, Defined)
  IN IF Len(filtered) = 0
     THEN [b |-> b, res |-> Throw("TypeError: in() requires at least one value")]
     ELSE LET a == getAttrName(b, attr)
              vs == MapValueName(a.b, filtered)
          IN [b |-> vs.b,
              res |-> Ok(a.ret \o StrIN \o Join(vs.ret, StrCommaSp) \o <<")">>)]

\* in(attr, values)
in(b, attr, values) ==
  LET filtered == SelectSeq(values, Defined)
  IN IF Len(filtered) = 0
     THEN [b |-> b,
           res |-> Throw(IF Len(values) # 0
                         THEN "TypeError: in() requires at least one non-undefined value"
                         ELSE "TypeError: in() requires at least one value")]
     ELSE LET a == getAttrName(b, attr)
              vs == MapValueName(a.b, filtered)
          IN [b |-> vs.b,
              res |-> Ok(a.ret \o StrIN \o Join(vs.ret, StrCommaSp) \o <<")">>)]

\* not(condition)
not(b, condition) ==
  LET t == Trim(condition)
  IN [b |-> b,
      res |-> Ok(IF StartsWith(t, "(") /\ EndsWith(t, ")")
                 THEN StrNOT \o t
                 ELSE StrNOT \o <<"(">> \o condition \o <<")">>)]

----------------------------------------------------------------------------
(* The method table returned by createExpressionBuilder.  A call is a      *)
(* record: op names the method, attr is its attribute path, vals its value  *)
(* arguments in order, conds the fragments handed to and / or / not.        *)

CompareOps == {"eq", "ne", "lt", "lte", "gt", "gte"}
FnOps == {"beginsWith", "contains", "attributeType"}
SingleOps == {"exists", "notExists", "size"}
SizeOps == {"sizeGt", "sizeLt", "sizeGte", "sizeLte"}
LogicalOps == {"and", "or"}

Call(op, attr, vals, conds) == [op |-> op, attr |-> attr, vals |-> vals, conds |-> conds]

\* the operator text each method is created with
OpText(op) ==
  CASE op \in {"eq"} -> <<"=">>
    [] op \in {"ne"} -> <<"<", ">">>
    [] op \in {"lt", "sizeLt"} -> <<"<">>
    [] op \in {"lte", "sizeLte"} -> <<"<", "=">>
    [] op \in {"gt", "sizeGt"} -> <<">">>
    [] op \in {"gte", "sizeGte"} -> <<">", "=">>
    [] op = "beginsWith" -> <<"b", "e", "g", "i", "n", "s", "_", "w", "i", "t", "h">>
    [] op = "contains" -> <<"c", "o", "n", "t", "a", "i", "n", "s">>
    [] op = "attributeType" ->
         <<"a", "t", "t", "r", "i", "b", "u", "t", "e", "_", "t", "y", "p", "e">>
    [] op = "exists" ->
         <<"a", "t", "t", "r", "i", "b", "u", "t", "e", "_", "e", "x", "i", "s", "t", "s">>
    [] op = "notExists" ->
         <<"a", "t", "t", "r", "i", "b", "u", "t", "e", "_", "n", "o", "t", "_",
           "e", "x", "i", "s", "t", "s">>
    [] op = "size" -> <<"s", "i", "z", "e">>
    [] op = "and" -> StrAND
    [] op = "or" -> StrOR

\* builder[c.op](...): the builder afterwards and what the call returned or threw
Invoke(b, c) ==
  CASE c.op \in CompareOps -> compare(b, OpText(c.op), c.attr, c.vals[1])
    [] c.op \in FnOps -> fn(b, OpText(c.op), c.attr, c.vals[1])
    [] c.op \in SizeOps -> sizeCompare(b, OpText(c.op), c.attr, c.vals[1])
    [] c.op \in SingleOps -> singleAttributeFunction(b, OpText(c.op), c.attr)
    [] c.op = "between" -> between(b, c.attr, c.vals[1], c.vals[2])
    [] c.op = "in" -> in(b, c.attr, c.vals)
    [] c.op \in LogicalOps -> logical(b, OpText(c.op), c.op, c.conds)
    [] c.op = "not" -> not(b, c.conds[1])

----------------------------------------------------------------------------
(* Callbacks a caller passes as condition / filter / sortKey options.  A    *)
(* callback is the list of builder calls it makes, in order, and how it     *)
(* combines the fragments: "single" returns the only fragment, "and" / "or" *)
(* hand all of them to that method, "none" means the option is not given.   *)

Callback(calls, comb) == [calls |-> calls, comb |-> comb]
NoCallback == Callback(<<>>, "none")
Given(cb) == cb.comb # "none"

\* what the calls made so far have left: the builder, the fragments they
\* returned, and the error of the call that threw ("" when none did)
Collected(b, frags, err) == [b |-> b, frags |-> frags, err |-> err]

\* one more call has returned or thrown
Collect(st, r) ==
  IF r.res.kind = "throw" THEN Collected(r.b, <<>>, r.res.err)
  ELSE Collected(r.b, Append(st.frags, r.res.val), "")

RECURSIVE RunCalls(_, _)
\* the calls of the callback, in order, up to the first that throws
RunCalls(st, calls) ==
  IF Len(calls) = 0 \/ st.err # "" THEN st
  ELSE RunCalls(Collect(st, Invoke(st.b, calls[1])), Tail(calls))

\* what the callback returns from the fragments of its calls
Combine(cb, r) ==
  IF r.err # "" THEN [b |-> r.b, res |-> Throw(r.err)]
  ELSE IF cb.comb = "single" THEN [b |-> r.b, res |-> Ok(r.frags[1])]
  ELSE logical(r.b, OpText(cb.comb), cb.comb, r.frags)

\* condition(builder): the builder afterwards and the fragment returned
RunCallback(cb, b) == Combine(cb, RunCalls(Collected(b, <<>>, ""), cb.calls))

\* the methods createSortKeyConditionBuilder exposes
SortKeyOps == {"eq", "lt", "lte", "gt", "gte", "between", "beginsWith"}

\* every method run on a builder of the adapter's own
bindAttributeOwnBuilder(b, sortKeyAttribute, c) ==
  Invoke(NewBuilder, [c EXCEPT !.attr = sortKeyAttribute])

\* createSortKeyConditionBuilder(builder, sortKeyAttribute): every method is
\* the builder's method with the attribute bound
bindAttribute(b, sortKeyAttribute, c) == Invoke(b, [c EXCEPT !.attr = sortKeyAttribute])

\* skBuilder[c.op](...c.vals): a name the returned object does not hold is
\* undefined, and calling it throws a TypeError
SortKeyInvoke(b, sortKeyAttribute, c) ==
  IF c.op \in SortKeyOps THEN bindAttribute(b, sortKeyAttribute, c)
  ELSE [b |-> b, res |-> Throw("TypeError: not a function")]

\* options.sortKey(skBuilder)
RunSortKeyCallback(cb, b, sortKeyAttribute) == bindAttribute(b, sortKeyAttribute, cb.calls[1])

----------------------------------------------------------------------------
(* marshall of @aws-sdk/util-dynamodb: the wire encoding of a value *)

MarshallValue(v) == IF v = Null THEN <<"NULL", "true">> ELSE <<"S", v>>

marshall(m) == [k \in DOMAIN m |-> MarshallValue(m[k])]

----------------------------------------------------------------------------
(* utils of the single-schema table *)

\* an options field that was left out
Get(m, k) == IF Has(m, k) THEN m[k] ELSE Undef

\* a map-valued field of a command input; spreading a missing one adds nothing
GetMap(m, k) == IF Has(m, k) THEN m[k] ELSE EmptyMap

\* buildKey(key, keyConfig)
buildKey(key, keyConfig) ==
  LET withPk == Put(EmptyMap, keyConfig.pk, Get(key, keyConfig.pk))
      dynamoKey == IF keyConfig.sk # <<>>
                   THEN Put(withPk, keyConfig.sk, Get(key, keyConfig.sk))
                   ELSE withPk
  IN marshall(dynamoKey)

\* segments.map(seg => { if (!builder.names[nameKey]) builder.names[nameKey] = seg })
RECURSIVE RegisterRaw(_, _)
RegisterRaw(names, segs) ==
  IF Len(segs) = 0 THEN names
  ELSE LET nameKey == <<"#">> \o segs[1]
       IN RegisterRaw(IF Falsy(names, nameKey) THEN Put(names, nameKey, segs[1]) ELSE names,
                      Tail(segs))

\* key.split('.') mapped to '#seg' and joined by '.'
RawRef(path) ==
  LET segments == Split(path, ".")
  IN Join([i \in 1..Len(segments) |-> <<"#">> \o segments[i]], <<".">>)

\* a value that is left out of SET: only undefined, null is written
IsRemovalUndefinedOnly(value) == value = Undef

\* value === undefined || value === null
IsRemoval(value) == value = Undef \/ value = Null

RECURSIVE UpdateLoop(_, _)
\* the for loop of buildUpdateExpression over Object.entries(updates); st
\* holds builder.names, builder.values, setExpressions, removeExpressions
\* and the local valueCounter
UpdateLoop(entries, st) ==
  IF Len(entries) = 0 THEN st
  ELSE LET key == entries[1][1]
           value == entries[1][2]
           names1 == RegisterRaw(st.names, Split(key, "."))
           attrName == RawRef(key)
       IN IF IsRemoval(value)
          THEN UpdateLoop(Tail(entries),
                          [st EXCEPT !.names = names1,
                                     !.removeExpressions = Append(@, attrName)])
          ELSE LET valName == StrVal \o Decimal(st.valueCounter)
               IN UpdateLoop(Tail(entries),
                             [st EXCEPT !.names = names1,
                                        !.values = Put(@, valName, value),
                                        !.valueCounter = @ + 1,
                                        !.setExpressions = Append(@, attrName \o StrEq \o valName)])

\* the parts joined whatever their number: no parts give the empty string
JoinedParts(parts) == Ok(Join(parts, <<" ">>))

\* if (parts.length === 0) throw ...; return parts.join(' ')
UpdateExpressionOf(parts) ==
  IF Len(parts) = 0
  THEN Throw("Error: UpdateExpression cannot be empty")
  ELSE Ok(Join(parts, <<" ">>))

\* the REMOVE part pushed before the SET part
buildUpdateExpressionRemoveFirst(updates, b) ==
  LET st == UpdateLoop(updates, [names |-> b.names, values |-> b.values,
                                 setExpressions |-> <<>>, removeExpressions |-> <<>>,
                                 valueCounter |-> 0])
      setPart == IF Len(st.setExpressions) > 0
                 THEN <<StrSET \o Join(st.setExpressions, StrCommaSp)>> ELSE <<>>
      removePart == IF Len(st.removeExpressions) > 0
                    THEN <<StrREMOVE \o Join(st.removeExpressions, StrCommaSp)>> ELSE <<>>
      parts == removePart \o setPart
      b1 == [b EXCEPT !.names = st.names, !.values = st.values]
  IN [b |-> b1, res |-> UpdateExpressionOf(parts),
      setExpressions |-> st.setExpressions, removeExpressions |-> st.removeExpressions]

\* buildUpdateExpression(updates, builder): the builder afterwards and the
\* expression returned, or the error thrown
buildUpdateExpression(updates, b) ==
  LET st == UpdateLoop(updates, [names |-> b.names, values |-> b.values,
                                 setExpressions |-> <<>>, removeExpressions |-> <<>>,
                                 valueCounter |-> 0])
      setPart == IF Len(st.setExpressions) > 0
                 THEN <<StrSET \o Join(st.setExpressions, StrCommaSp)>> ELSE <<>>
      removePart == IF Len(st.removeExpressions) > 0
                    THEN <<StrREMOVE \o Join(st.removeExpressions, StrCommaSp)>> ELSE <<>>
      parts == setPart \o removePart
      b1 == [b EXCEPT !.names = st.names, !.values = st.values]
  IN [b |-> b1, res |-> UpdateExpressionOf(parts),
      setExpressions |-> st.setExpressions, removeExpressions |-> st.removeExpressions]

----------------------------------------------------------------------------
(* Command builders of the single-schema table.  A command input is a map   *)
(* from field names to values; a build returns the input it made or the     *)
(* error it threw, together with the compiled units (the builders whose     *)
(* maps went into the input).                                               *)

NoUnits == [u \in {} |-> NewBuilder]

Built(input, units) == [res |-> Ok(<<>>), input |-> input, units |-> units]
Failed(res) == [res |-> res, input |-> EmptyMap, units |-> NoUnits]

\* commandInput[field] = expression, and the builder's names and marshalled
\* values put in the place of the ones commandInput holds
ReplaceExpression(c, field, commandInput) ==
  IF c.res.kind = "throw" THEN [res |-> c.res, input |-> commandInput, b |-> c.b]
  ELSE [res |-> c.res,
        input |-> Put(Put(Put(commandInput, field, c.res.val),
                          "ExpressionAttributeNames", c.b.names),
                      "ExpressionAttributeValues", marshall(c.b.values)),
        b |-> c.b]

\* commandInput[field] = expression, and the builder's names and marshalled
\* values spread over the ones commandInput holds; c is what the callback
\* returned and the builder it ran on
MergeExpression(c, field, commandInput) ==
  IF c.res.kind = "throw" THEN [res |-> c.res, input |-> commandInput, b |-> c.b]
  ELSE [res |-> c.res,
        input |->
          Put(Put(Put(commandInput, field, c.res.val),
                  "ExpressionAttributeNames",
                  Spread(GetMap(commandInput, "ExpressionAttributeNames"), c.b.names)),
              "ExpressionAttributeValues",
              Spread(GetMap(commandInput, "ExpressionAttributeValues"),
                     marshall(c.b.values))),
        b |-> c.b]

\* applyConditionExpressionWithMerge(condition, commandInput)
applyConditionExpressionWithMerge(condition, commandInput) ==
  MergeExpression(RunCallback(condition, NewBuilder), "ConditionExpression", commandInput)

\* applyFilterExpressionWithMerge(filter, commandInput)
applyFilterExpressionWithMerge(filter, commandInput) ==
  MergeExpression(RunCallback(filter, NewBuilder), "FilterExpression", commandInput)

\* `${pkExpression} AND ${skCondition}`; sk is what options.sortKey returned
AndSortKey(pkExpression, sk) ==
  IF sk.res.kind = "throw" THEN [b |-> sk.b, res |-> sk.res]
  ELSE [b |-> sk.b, res |-> Ok(pkExpression \o StrAND \o sk.res.val)]

\* the sort-key condition appended whenever one is supplied
buildKeyConditionExpressionAnySortKey(partitionKey, keyConfig, options, b) ==
  LET pkAttrName == <<"#">> \o keyConfig.pk
      b1 == [b EXCEPT !.names = Put(@, pkAttrName, keyConfig.pk),
                      !.values = Put(@, StrPk, Get(partitionKey, keyConfig.pk))]
      pkExpression == pkAttrName \o StrEq \o StrPk
  IN IF Given(options.sortKey)
     THEN AndSortKey(pkExpression, RunSortKeyCallback(options.sortKey, b1, keyConfig.sk))
     ELSE [b |-> b1, res |-> Ok(pkExpression)]

\* value ?? fallback
OrElse(value, fallback) == IF value = Undef \/ value = Null THEN fallback ELSE value

\* buildProjectionExpression(projection, builder): the ', '-joined references
\* and the builder with the segments' names
RECURSIVE ProjectionNames(_, _)
ProjectionNames(names, projection) ==
  IF Len(projection) = 0 THEN names
  ELSE ProjectionNames(RegisterRaw(names, Split(projection[1], ".")), Tail(projection))

buildProjectionExpression(projection, b) ==
  [b |-> [b EXCEPT !.names = ProjectionNames(b.names, projection)],
   ret |-> Join([i \in 1..Len(projection) |-> RawRef(projection[i])], StrCommaSp)]

\* the projection applied whenever a list is given, empty or not
WithProjectionOfAnyList(target, options) ==
  IF options.projection.defined
  THEN ("ProjectionExpression" :>
          buildProjectionExpression(options.projection.val, NewBuilder).ret) @@
       ("ExpressionAttributeNames" :>
          buildProjectionExpression(options.projection.val, NewBuilder).b.names) @@ target
  ELSE target

\* if (options?.projection && options.projection.length > 0) { ... }: target
\* with the projection expression and the names of a fresh builder
WithProjection(target, options) ==
  IF options.projection.defined /\ Len(options.projection.val) > 0
  THEN ("ProjectionExpression" :>
          buildProjectionExpression(options.projection.val, NewBuilder).ret) @@
       ("ExpressionAttributeNames" :>
          buildProjectionExpression(options.projection.val, NewBuilder).b.names) @@ target
  ELSE target

\* buildGetItemCommand(key, options, config)
buildGetItemCommand(key, options, config) ==
  Built(WithProjection(("TableName" :> config.tableName) @@
                       ("Key" :> buildKey(key, config.key)) @@
                       ("ConsistentRead" :> OrElse(options.consistentRead, "false")),
                       options),
        NoUnits)

\* buildBatchGetItemCommand(keys, options, config)
buildBatchGetItemCommand(keys, options, config) ==
  Built(("RequestItems" :>
           (config.tableName :>
              WithProjection(("Keys" :> [i \in 1..Len(keys) |-> buildKey(keys[i], config.key)]) @@
                             ("ConsistentRead" :> OrElse(options.consistentRead, "false")),
                             options))),
        NoUnits)

\* buildKeyConditionExpression(partitionKey, keyConfig, options, builder)
buildKeyConditionExpression(partitionKey, keyConfig, options, b) ==
  LET pkAttrName == <<"#">> \o keyConfig.pk
      b1 == [b EXCEPT !.names = Put(@, pkAttrName, keyConfig.pk),
                      !.values = Put(@, StrPk, Get(partitionKey, keyConfig.pk))]
      pkExpression == pkAttrName \o StrEq \o StrPk
  IN IF keyConfig.sk # <<>> /\ Given(options.sortKey)
     THEN AndSortKey(pkExpression, RunSortKeyCallback(options.sortKey, b1, keyConfig.sk))
     ELSE [b |-> b1, res |-> Ok(pkExpression)]

\* applyQueryOptions(options, commandInput); a limit of 0 stands for none
applyQueryOptions(options, commandInput) ==
  IF options.limit # 0 THEN Put(commandInput, "Limit", options.limit) ELSE commandInput

\* the command once the condition has been applied; c is what
\* applyConditionExpressionWithMerge left
ConditionedCommand(updateBuilder, c) ==
  IF c.res.kind = "throw" THEN Failed(c.res)
  ELSE Built(c.input, ("update" :> updateBuilder) @@ ("condition" :> c.b))

\* the command input made of the key and the compiled update u
UpdateItemCommandInput(dynamoKey, u, options, config) ==
  LET commandInput ==
        ("TableName" :> config.tableName) @@ ("Key" :> dynamoKey) @@
        ("UpdateExpression" :> u.res.val) @@ ("ReturnValues" :> "ALL_NEW")
      withNames == IF Size(u.b.names) > 0
                   THEN Put(commandInput, "ExpressionAttributeNames", u.b.names)
                   ELSE commandInput
      withValues == IF Size(u.b.values) > 0
                    THEN Put(withNames, "ExpressionAttributeValues", marshall(u.b.values))
                    ELSE withNames
  IN IF u.res.kind = "throw" THEN Failed(u.res)
     ELSE IF Given(options.condition)
     THEN ConditionedCommand(u.b,
                             applyConditionExpressionWithMerge(options.condition, withValues))
     ELSE Built(withValues, ("update" :> u.b))

\* buildUpdateItemCommand(key, updates, options, config)
buildUpdateItemCommand(key, updates, options, config) ==
  UpdateItemCommandInput(buildKey(key, config.key),
                         buildUpdateExpression(updates, NewBuilder), options, config)

\* the command once the filter has been applied; f is what
\* applyFilterExpressionWithMerge left
FilteredCommand(keyBuilder, options, f) ==
  IF f.res.kind = "throw" THEN Failed(f.res)
  ELSE Built(applyQueryOptions(options, f.input),
             ("key" :> keyBuilder) @@ ("filter" :> f.b))

\* the command input made of the compiled key condition k
KeyedCommandInput(base, k, options) ==
  LET commandInput ==
        base @@ ("KeyConditionExpression" :> k.res.val) @@
        ("ExpressionAttributeNames" :> k.b.names) @@
        ("ExpressionAttributeValues" :> marshall(k.b.values))
  IN IF k.res.kind = "throw" THEN Failed(k.res)
     ELSE IF Given(options.filter)
     THEN FilteredCommand(k.b, options,
                          applyFilterExpressionWithMerge(options.filter, commandInput))
     ELSE Built(applyQueryOptions(options, commandInput), ("key" :> k.b))

\* the body buildQueryCommand and buildQueryIndexCommand share, for the
\* table's or the index's key configuration
QueryCommandInput(base, partitionKey, keyConfig, options) ==
  KeyedCommandInput(base,
                    buildKeyConditionExpression(partitionKey, keyConfig, options, NewBuilder),
                    options)

\* buildQueryCommand(partitionKey, options, config)
buildQueryCommand(partitionKey, options, config) ==
  QueryCommandInput(("TableName" :> config.tableName), partitionKey, config.key, options)

\* buildQueryIndexCommand(indexName, partitionKey, options, config)
buildQueryIndexCommand(indexName, partitionKey, options, config) ==
  IF ~Has(config.indexes, indexName)
  THEN Failed(Throw("Error: Index not found in table configuration"))
  ELSE QueryCommandInput(("TableName" :> config.tableName) @@ ("IndexName" :> indexName),
                         partitionKey, config.indexes[indexName].key, options)

----------------------------------------------------------------------------
(* The multi-schema table (table.ts) and its utils *)

\* a string that counts as true in a condition: neither undefined nor ''
Truthy(s) == s # Undef /\ s # <<>>

\* buildKeyConditionExpression(pkField, pkValue, skField, skCondition) of utils.ts
utilsBuildKeyConditionExpression(pkField, pkValue, skField, skCondition) ==
  LET both == Truthy(skCondition) /\ Truthy(skField)
  IN [KeyConditionExpression |->
        <<"#", "p", "k", " ", "=", " ", ":", "p", "k">> \o
        (IF both THEN <<" ", "A", "N", "D", " ">> \o skCondition ELSE <<>>),
      ExpressionAttributeNames |->
        IF both THEN (<<"#", "p", "k">> :> pkField) @@ (<<"#", "s", "k">> :> skField)
        ELSE (<<"#", "p", "k">> :> pkField),
      ExpressionAttributeValues |-> (<<":", "p", "k">> :> pkValue)]

\* an optional map: a map that is given, or undefined
Some(m) == [defined |-> TRUE, val |-> m]
None == [defined |-> FALSE, val |-> EmptyMap]

\* validateKeyInput without its check of the sort key field
validateKeyInputPartitionOnly(keyInput, keyConfig) ==
  IF Get(keyInput, keyConfig.pk) \in {Undef, Null}
  THEN Throw("Error: Missing required partition key field: " \o keyConfig.pkText)
  ELSE Ok(<<>>)

\* validateKeyInput(keyInput, keyConfig); field names are character
\* sequences, pkText / skText are the same names as they appear in messages
validateKeyInput(keyInput, keyConfig) ==
  IF Get(keyInput, keyConfig.pk) \in {Undef, Null}
  THEN Throw("Error: Missing required partition key field: " \o keyConfig.pkText)
  ELSE IF keyConfig.sk # <<>> /\ Get(keyInput, keyConfig.sk) \in {Undef, Null}
  THEN Throw("Error: Missing required sort key field: " \o keyConfig.skText)
  ELSE Ok(<<>>)

\* extractKey(entityOrKey, keyConfig)
extractKey(entityOrKey, keyConfig) ==
  LET key == Put(EmptyMap, keyConfig.pk, Get(entityOrKey, keyConfig.pk))
  IN IF keyConfig.sk # <<>>
     THEN Put(key, keyConfig.sk, Get(entityOrKey, keyConfig.sk))
     ELSE key

EntryIsSet(e) == e[2] # Undef /\ e[2] # Null
EntryIsNull(e) == e[2] = Null

\* the keys of the entries, in map order
KeysOf(entries) == [i \in 1..Len(entries) |-> entries[i][1]]

\* updatesRecord[key]
ValueOf(entries, key) ==
  LET i == CHOOSE i \in 1..Len(entries) : entries[i][1] = key
  IN entries[i][2]

\* buildUpdateExpression(updates) of utils.ts
tableBuildUpdateExpression(updates) ==
  LET keysToSet == KeysOf(SelectSeq(updates, EntryIsSet))
      keysToRemove == KeysOf(SelectSeq(updates, EntryIsNull))
      setClauses == [i \in 1..Len(keysToSet) |->
                       <<"#">> \o keysToSet[i] \o StrEq \o <<":">> \o keysToSet[i]]
      setExpression == IF Len(setClauses) > 0
                       THEN StrSET \o Join(setClauses, StrCommaSp) ELSE <<>>
      removeClauses == [i \in 1..Len(keysToRemove) |-> <<"#">> \o keysToRemove[i]]
      removeExpression == IF Len(removeClauses) > 0
                          THEN StrREMOVE \o Join(removeClauses, StrCommaSp) ELSE <<>>
      updateExpression ==
        Trim(Join(SelectSeq(<<setExpression, removeExpression>>, NonEmpty), <<" ">>))
      allModifiedKeys == keysToSet \o keysToRemove
  IN [UpdateExpression |-> updateExpression,
      ExpressionAttributeNames |->
        [k \in {<<"#">> \o allModifiedKeys[i] : i \in 1..Len(allModifiedKeys)} |-> Tail(k)],
      ExpressionAttributeValues |->
        [k \in {<<":">> \o keysToSet[i] : i \in 1..Len(keysToSet)} |->
           ValueOf(updates, Tail(k))]]

\* normalizeExpressionAttributes(attrs)
normalizeExpressionAttributes(attrs) == IF Size(attrs) > 0 THEN Some(attrs) ELSE None

RECURSIVE Assign(_, _)
\* Object.assign(target, ...parts.filter(Boolean))
Assign(target, parts) ==
  IF Len(parts) = 0 THEN target
  ELSE Assign(IF parts[1].defined THEN Spread(target, parts[1].val) ELSE target, Tail(parts))

\* mergeAndNormalize(...parts): Object.keys(normalized) throws a TypeError
\* when normalized is undefined
mergeAndNormalize(parts) ==
  LET merged == Assign(EmptyMap, parts)
      normalized == normalizeExpressionAttributes(merged)
  IN IF ~normalized.defined
     THEN [res |-> Throw("TypeError: Cannot convert undefined or null to object"), out |-> None]
     ELSE [res |-> Ok(<<>>), out |-> IF Size(normalized.val) # 0 THEN normalized ELSE None]

\* unmarshall of @aws-sdk/util-dynamodb
UnmarshallValue(w) == IF w = <<"NULL", "true">> THEN Null ELSE w[2]

unmarshall(m) == [k \in DOMAIN m |-> UnmarshallValue(m[k])]

\* how an operation of the table ended: what it returned or threw, and the
\* requests it sent to the client
Ran(res, item, sent) == [res |-> res, item |-> item, sent |-> sent]

\* update(key, updates) of table.ts, called without options; attributes is
\* what the client's response carries as Attributes
tableUpdate(ctx, key, updates, attributes) ==
  LET expr == tableBuildUpdateExpression(updates)
      mergedValues == mergeAndNormalize(<<Some(expr.ExpressionAttributeValues), None>>)
      validated == validateKeyInput(key, ctx.keyConfig)
      mergedNames == mergeAndNormalize(<<Some(expr.ExpressionAttributeNames), None>>)
      withValues ==
        IF mergedValues.out.defined
        THEN ("ExpressionAttributeValues" :> marshall(mergedValues.out.val)) ELSE EmptyMap
      request ==
        ("TableName" :> ctx.tableName) @@
        ("Key" :> marshall(extractKey(key, ctx.keyConfig))) @@
        ("UpdateExpression" :> expr.UpdateExpression) @@
        ("ExpressionAttributeNames" :> mergedNames.out.val) @@
        withValues @@ ("ReturnValues" :> "ALL_NEW")
  IN IF Len(updates) = 0 THEN Ran(Throw("Error: Updates object cannot be empty"), None, <<>>)
     ELSE IF expr.UpdateExpression = <<>>
     THEN Ran(Throw("Error: UpdateExpression is required but was not generated"), None, <<>>)
     ELSE IF mergedValues.res.kind = "throw" THEN Ran(mergedValues.res, None, <<>>)
     ELSE IF validated.kind = "throw" THEN Ran(validated, None, <<>>)
     ELSE IF mergedNames.res.kind = "throw" THEN Ran(mergedNames.res, None, <<>>)
     ELSE IF ~attributes.defined
     THEN Ran(Throw("Error: Update operation completed but no attributes were returned"),
              None, <<request>>)
     ELSE Ran(Ok(<<>>), Some(unmarshall(attributes.val)), <<request>>)

\* extractAndValidateKey(keyInput, keyConfig), which createKeyOf wraps: the
\* error of the validation, or the key extracted
extractAndValidateKey(keyInput, keyConfig) ==
  [res |-> validateKeyInput(keyInput, keyConfig), key |-> extractKey(keyInput, keyConfig)]

\* marshall of the client library refuses a map holding undefined
MarshallItem(m) ==
  IF \E k \in DOMAIN m : m[k] = Undef
  THEN [res |-> Throw("Error: Pass options.removeUndefinedValues=true to remove undefined values from map/array/set."),
        val |-> EmptyMap]
  ELSE [res |-> Ok(<<>>), val |-> marshall(m)]

\* get(key) of table.ts, called without options; item is what the client's
\* response carries as Item
tableGet(ctx, key, item) ==
  LET keyOf == extractAndValidateKey(key, ctx.keyConfig)
      request == ("TableName" :> ctx.tableName) @@ ("Key" :> marshall(keyOf.key))
  IN IF keyOf.res.kind = "throw" THEN Ran(keyOf.res, None, <<>>)
     ELSE Ran(Ok(<<>>), IF item.defined THEN Some(unmarshall(item.val)) ELSE None,
              <<request>>)

\* put(item) of table.ts, called without options; attributes is what the
\* client's response carries as Attributes
tablePut(ctx, item, attributes) ==
  LET validated == validateKeyInput(item, ctx.keyConfig)
      marshalled == MarshallItem(item)
      request == ("TableName" :> ctx.tableName) @@ ("Item" :> marshalled.val)
  IN IF validated.kind = "throw" THEN Ran(validated, None, <<>>)
     ELSE IF marshalled.res.kind = "throw" THEN Ran(marshalled.res, None, <<>>)
     ELSE Ran(Ok(<<>>),
              IF attributes.defined THEN Some(unmarshall(attributes.val)) ELSE Some(item),
              <<request>>)

\* remove(key) of table.ts, called without options
tableRemove(ctx, key) ==
  LET keyOf == extractAndValidateKey(key, ctx.keyConfig)
      request == ("TableName" :> ctx.tableName) @@ ("Key" :> marshall(keyOf.key))
  IN IF keyOf.res.kind = "throw" THEN Ran(keyOf.res, None, <<>>)
     ELSE Ran(Ok(<<>>), None, <<request>>)

\* String(key[field] ?? ''): the text of a key field, empty when it is absent
KeyFieldText(key, field) == IF Has(key, field) THEN key[field] ELSE <<>>

\* createKeyString(key, keyConfig): pk, or `${pk}::${sk}` with a sort key
createKeyString(key, keyConfig) ==
  IF keyConfig.sk # <<>>
  THEN KeyFieldText(key, keyConfig.pk) \o <<":", ":">> \o KeyFieldText(key, keyConfig.sk)
  ELSE KeyFieldText(key, keyConfig.pk)

\* new Map(entries).get(keyString): the item of the last entry under that
\* key string, as a list of one, or the empty list for undefined
KeyMapGet(keyStrings, items, keyString) ==
  LET hits == {i \in 1..Len(items) : keyStrings[i] = keyString}
  IN IF hits = {} THEN <<>>
     ELSE <<items[CHOOSE i \in hits : \A j \in hits : j <= i]>>

RECURSIVE Flatten(_)
\* the lists of a list, concatenated
Flatten(lists) == IF Len(lists) = 0 THEN <<>> ELSE lists[1] \o Flatten(Tail(lists))

\* sortBatchResults(keys, items, keyConfig)
sortBatchResults(keys, items, keyConfig) ==
  LET keyStrings == [i \in 1..Len(items) |-> createKeyString(items[i], keyConfig)]
  IN Flatten([i \in 1..Len(keys) |->
                KeyMapGet(keyStrings, items, createKeyString(keys[i], keyConfig))])

----------------------------------------------------------------------------
(* Transactions of the single-schema table *)

\* the most items TransactWriteItems takes
MaxTransactItems == 25

\* a request of a transaction; the fields its type does not use are empty
Request(type, item, key, updates, condition) ==
  [type |-> type, item |-> item, key |-> key, updates |-> updates, condition |-> condition]

\* commandInput with the expression and the builder's names and marshalled
\* values set on it, replacing the ones it holds; c is what the callback
\* returned and the builder it ran on
SetExpression(c, field, commandInput) ==
  IF c.res.kind = "throw" THEN [res |-> c.res, input |-> commandInput, b |-> c.b]
  ELSE [res |-> c.res,
        input |-> Put(Put(Put(commandInput, field, c.res.val),
                          "ExpressionAttributeNames", c.b.names),
                      "ExpressionAttributeValues", marshall(c.b.values)),
        b |-> c.b]

\* applyConditionExpression(condition, commandInput)
applyConditionExpression(condition, commandInput) ==
  SetExpression(RunCallback(condition, NewBuilder), "ConditionExpression", commandInput)

\* if (request.condition) apply(request.condition, target); the item of the
\* given kind, or the error the condition threw
Conditioned(kind, request, target, c) ==
  IF ~Given(request.condition) THEN [res |-> Ok(<<>>), item |-> (kind :> target)]
  ELSE [res |-> c.res, item |-> (kind :> c.input)]

\* the Update of an update request whose expression u has been compiled
TransactUpdate(request, u, config) ==
  (IF Size(u.b.values) > 0
   THEN ("ExpressionAttributeValues" :> marshall(u.b.values)) ELSE EmptyMap) @@
  (IF Size(u.b.names) > 0
   THEN ("ExpressionAttributeNames" :> u.b.names) ELSE EmptyMap) @@
  ("TableName" :> config.tableName) @@ ("Key" :> buildKey(request.key, config.key)) @@
  ("UpdateExpression" :> u.res.val)

\* one turn of the loop over the requests: the item pushed, or the error thrown
TransactItem(request, config) ==
  CASE request.type = "put" ->
         Conditioned("Put", request,
                     ("TableName" :> config.tableName) @@ ("Item" :> marshall(request.item)),
                     applyConditionExpression(
                       request.condition,
                       ("TableName" :> config.tableName) @@ ("Item" :> marshall(request.item))))
    [] request.type = "update" ->
         IF buildUpdateExpression(request.updates, NewBuilder).res.kind = "throw"
         THEN [res |-> buildUpdateExpression(request.updates, NewBuilder).res, item |-> EmptyMap]
         ELSE Conditioned("Update", request,
                          TransactUpdate(request,
                                         buildUpdateExpression(request.updates, NewBuilder),
                                         config),
                          applyConditionExpressionWithMerge(
                            request.condition,
                            TransactUpdate(request,
                                           buildUpdateExpression(request.updates, NewBuilder),
                                           config)))
    [] request.type = "delete" ->
         Conditioned("Delete", request,
                     ("TableName" :> config.tableName) @@
                     ("Key" :> buildKey(request.key, config.key)),
                     applyConditionExpression(
                       request.condition,
                       ("TableName" :> config.tableName) @@
                       ("Key" :> buildKey(request.key, config.key))))

RECURSIVE TransactItems(_, _, _)
\* for (const request of requests) { ... transactItems.push(transactItem) }
TransactItems(requests, config, transactItems) ==
  IF Len(requests) = 0 THEN [res |-> Ok(<<>>), items |-> transactItems]
  ELSE IF TransactItem(requests[1], config).res.kind = "throw"
  THEN [res |-> TransactItem(requests[1], config).res, items |-> transactItems]
  ELSE TransactItems(Tail(requests), config,
                     Append(transactItems, TransactItem(requests[1], config).item))

\* the command of the items the loop has left, or the error it threw
TransactCommand(r) ==
  IF r.res.kind = "throw" THEN Failed(r.res)
  ELSE Built(("TransactItems" :> r.items), NoUnits)

\* the command built whatever the number of requests
buildTransactWriteItemsCommandOfAnyLength(requests, config) ==
  TransactCommand(TransactItems(requests, config, <<>>))

\* buildTransactWriteItemsCommand(requests, config)
buildTransactWriteItemsCommand(requests, config) ==
  IF Len(requests) > MaxTransactItems
  THEN Failed(Throw("Error: TransactWriteItems supports a maximum of 25 items per transaction"))
  ELSE TransactCommand(TransactItems(requests, config, <<>>))

\* { ...request.key, ...request.updates }
KeyWithUpdates(request) ==
  Spread(request.key,
         [k \in {request.updates[i][1] : i \in 1..Len(request.updates)} |->
            ValueOf(request.updates, k)])

RECURSIVE toTransactionResult(_)
\* toTransactionResult(requests): the items of the put and update requests
toTransactionResult(requests) ==
  IF Len(requests) = 0 THEN <<>>
  ELSE (CASE requests[1].type = "put" -> <<requests[1].item>>
          [] requests[1].type = "update" -> <<KeyWithUpdates(requests[1])>>
          [] OTHER -> <<>>) \o toTransactionResult(Tail(requests))

\* what transaction does with the command built: the error of the build, or
\* the command sent and the client's answer awaited
Transacted(requests, command, rejects) ==
  IF command.res.kind = "throw" THEN Ran(command.res, None, <<>>)
  ELSE IF rejects THEN Ran(Throw("Error: client"), None, <<command.input>>)
  ELSE Ran(Ok(<<>>), Some(toTransactionResult(requests)), <<command.input>>)

\* transaction(client, config)(requests); rejects tells whether client.send does
transaction(config, requests, rejects) ==
  IF Len(requests) = 0 THEN Ran(Ok(<<>>), Some(<<>>), <<>>)
  ELSE Transacted(requests, buildTransactWriteItemsCommand(requests, config), rejects)

----------------------------------------------------------------------------
(* paginate of table.ts: an async generator.  pager holds its local        *)
(* variables and where it stands (pc): "idle" before the call, "loop" at the *)
(* test of the while loop, "yield" once a page has been fetched, "done"      *)
(* after it has returned; sent lists the requests sent, received the         *)
(* responses to them, onPaged the pages handed to onPage and yielded the     *)
(* pages yielded.                                                            *)

\* maxPages left out: Infinity
NoMaxPages == [defined |-> FALSE, val |-> 0]

NoPager ==
  [pc |-> "idle", options |-> EmptyMap, maxPages |-> NoMaxPages, onPage |-> FALSE, page |-> 0,
   exclusiveStartKey |-> None, result |-> EmptyMap, sent |-> <<>>, received |-> <<>>,
   onPaged |-> <<>>, yielded |-> <<>>]

\* encodePageKey: the base64 text of the key's JSON text
encodePageKey(key) == [base64 |-> [json |-> key]]

\* decodePageKey: the value of the JSON text the base64 text holds
decodePageKey(encodedKey) == encodedKey.base64.json

\* hasNextPage whatever the response holds
toPagedResultNeverLast(response) ==
  [hasNextPage |-> TRUE,
   nextPageKey |-> IF response.LastEvaluatedKey.defined
                   THEN Some(encodePageKey(response.LastEvaluatedKey.val)) ELSE None,
   items |-> IF response.Items.defined THEN response.Items.val ELSE <<>>]

\* toPagedResult(result)
toPagedResult(response) ==
  [hasNextPage |-> response.LastEvaluatedKey.defined,
   nextPageKey |-> IF response.LastEvaluatedKey.defined
                   THEN Some(encodePageKey(response.LastEvaluatedKey.val)) ELSE None,
   items |-> IF response.Items.defined THEN response.Items.val ELSE <<>>]

\* exclusiveStartKey ? marshall(exclusiveStartKey) : undefined
StartKeyField(exclusiveStartKey) ==
  IF exclusiveStartKey.defined
  THEN ("ExclusiveStartKey" :> marshall(exclusiveStartKey.val)) ELSE EmptyMap

\* the QueryCommand query sends for options with a pk
tableQueryRequest(ctx, options, esk) ==
  ("command" :> "Query") @@ ("TableName" :> ctx.tableName) @@
  ("KeyConditionExpression" :>
     utilsBuildKeyConditionExpression(ctx.keyConfig.pk, options.pk.val, ctx.keyConfig.sk,
                                      options.skCondition).KeyConditionExpression) @@
  ("ExpressionAttributeNames" :>
     mergeAndNormalize(<<Some(utilsBuildKeyConditionExpression(
                                ctx.keyConfig.pk, options.pk.val, ctx.keyConfig.sk,
                                options.skCondition).ExpressionAttributeNames),
                         None>>).out.val) @@
  ("ExpressionAttributeValues" :>
     marshall(mergeAndNormalize(<<Some(utilsBuildKeyConditionExpression(
                                         ctx.keyConfig.pk, options.pk.val, ctx.keyConfig.sk,
                                         options.skCondition).ExpressionAttributeValues),
                                  None>>).out.val)) @@
  StartKeyField(esk)

\* the ScanCommand scan sends
tableScanRequest(ctx, options, esk) ==
  ("command" :> "Scan") @@ ("TableName" :> ctx.tableName) @@ StartKeyField(esk)

\* fetchPage(esk): 'pk' in current ? queryFn(current) : scanFn(current); the
\* request that goes to the client
fetchPage(ctx, options, esk) ==
  IF options.pk.defined THEN tableQueryRequest(ctx, options, esk)
  ELSE tableScanRequest(ctx, options, esk)

\* paginate(options, paginateOptions) up to the first test of the loop
paginateCalled(options, maxPages, onPage) ==
  [NoPager EXCEPT !.pc = "loop", !.options = options, !.maxPages = maxPages,
                  !.onPage = onPage, !.exclusiveStartKey = options.exclusiveStartKey]

\* page < maxPages, maxPages being Infinity when none is given
WithinMaxPages(p) == ~p.maxPages.defined \/ p.page < p.maxPages.val

\* const result = await fetchPage(exclusiveStartKey), the client answering
\* with response
paginateFetched(p, ctx, response) ==
  [p EXCEPT !.pc = "yield",
            !.sent = Append(@, fetchPage(ctx, p.options, p.exclusiveStartKey)),
            !.received = Append(@, response),
            !.result = toPagedResult(response)]

\* if (onPage) await onPage(result.items); yield result.items;
\* if (!result.hasNextPage) return; exclusiveStartKey = ...; page++
paginateYielded(p) ==
  [p EXCEPT !.onPaged = IF p.onPage THEN Append(@, p.result.items) ELSE @,
            !.yielded = Append(@, p.result.items),
            !.pc = IF ~p.result.hasNextPage THEN "done" ELSE "loop",
            !.exclusiveStartKey =
              IF ~p.result.hasNextPage THEN @
              ELSE IF p.result.nextPageKey.defined
              THEN Some(decodePageKey(p.result.nextPageKey.val)) ELSE None,
            !.page = IF ~p.result.hasNextPage THEN @ ELSE @ + 1]

----------------------------------------------------------------------------
(* The last command built or table operation run: its name, its arguments   *)
(* and what it returned                                                     *)

Cmd(op, args, out) == [op |-> op, args |-> args, out |-> out]
NoCmd == Cmd("none", EmptyMap, EmptyMap)

----------------------------------------------------------------------------
(* Builders as createExpressionBuilder makes them: names, values and counter *)
(* are variables of the closure, modelled as cells of a store; a builder is  *)
(* the triple of the cells its methods close over.  pool holds the store,    *)
(* the builders made so far and the index of the builder called last.        *)

NoPool == [cells |-> <<>>, made |-> <<>>, active |-> 0]

\* one counter cell for every builder, as a variable of the module would be
createExpressionBuilderModuleCounter(p) ==
  IF Len(p.cells) = 0
  THEN [p EXCEPT !.cells = <<0, EmptyMap, EmptyMap>>,
                 !.made = Append(@, [counter |-> 1, names |-> 2, values |-> 3])]
  ELSE [p EXCEPT !.cells = @ \o <<EmptyMap, EmptyMap>>,
                 !.made = Append(@, [counter |-> 1, names |-> Len(p.cells) + 1,
                                     values |-> Len(p.cells) + 2])]

\* createExpressionBuilder(): const names = {}, const values = {},
\* let counter = 0, and the methods that close over them
createExpressionBuilder(p) ==
  [p EXCEPT !.cells = @ \o <<0, EmptyMap, EmptyMap>>,
            !.made = Append(@, [counter |-> Len(p.cells) + 1, names |-> Len(p.cells) + 2,
                                values |-> Len(p.cells) + 3])]

\* the names, values and counter a builder's methods read
Closure(p, h) ==
  [names |-> p.cells[h.names], values |-> p.cells[h.values], counter |-> p.cells[h.counter]]

\* the cells after a method of builder h has left them as b
Stored(p, h, b) ==
  [p EXCEPT !.cells = [i \in 1..Len(p.cells) |->
                         IF i = h.counter THEN b.counter
                         ELSE IF i = h.names THEN b.names
                         ELSE IF i = h.values THEN b.values
                         ELSE p.cells[i]]]

----------------------------------------------------------------------------
(* Inputs of the builder runs *)

\* attribute paths: plain, dotted, empty, padded
Paths == {<<"a">>, <<"a", ".", "b">>, <<>>, <<" ", "a">>}

\* the plain and the dotted path
PlainPaths == {<<"a">>, <<"a", ".", "b">>}

\* fragments written by hand: a, (a), ' (a) ', ((a)), (a) OR (b), a IN (b), (a) = b
HandFragments ==
  {<<"a">>,
   <<"(", "a", ")">>,
   <<" ", "(", "a", ")", " ">>,
   <<"(", "(", "a", ")", ")">>,
   <<"(", "a", ")", " ", "O", "R", " ", "(", "b", ")">>,
   <<"a", " ", "I", "N", " ", "(", "b", ")">>,
   <<"(", "a", ")", " ", "=", " ", "b">>}

\* fragments handed to and / or
LogicalFragments == {<<"a">>, <<"(", "b", ")">>}

NoCall == Call("none", <<>>, <<>>, <<>>)

\* the values a call hands to getValueName, in the order of its arguments
Binds(c) ==
  CASE c.op \in CompareOps \cup FnOps \cup SizeOps -> <<c.vals[1]>>
    [] c.op = "between" -> <<c.vals[1], c.vals[2]>>
    [] c.op = "in" -> SelectSeq(c.vals, Defined)
    [] OTHER -> <<>>

----------------------------------------------------------------------------
(* Runs of one expression builder *)

InitBuilder ==
  /\ builder = NewBuilder
  /\ call = NoCall
  /\ result = NoResult
  /\ bound = <<>>
  /\ cmd = NoCmd
  /\ pool = NoPool
  /\ pager = NoPager

\* one method call on the builder
Step(c) ==
  /\ builder.counter + Len(Binds(c)) <= MaxValues
  /\ LET r == Invoke(builder, c)
     IN /\ builder' = r.b
        /\ result' = r.res
  /\ call' = c
  /\ bound' = bound \o Binds(c)

CompareStep ==
  /\ \E op \in CompareOps, attr \in Paths, v \in Operands : Step(Call(op, attr, <<v>>, <<>>))
  /\ UNCHANGED <<cmd, pool, pager>>

FnStep ==
  /\ \E op \in FnOps, attr \in PlainPaths, v \in Operands : Step(Call(op, attr, <<v>>, <<>>))
  /\ UNCHANGED <<cmd, pool, pager>>

SizeCompareStep ==
  /\ \E op \in SizeOps, attr \in PlainPaths, v \in Operands : Step(Call(op, attr, <<v>>, <<>>))
  /\ UNCHANGED <<cmd, pool, pager>>

SingleAttributeStep ==
  /\ \E op \in SingleOps, attr \in Paths : Step(Call(op, attr, <<>>, <<>>))
  /\ UNCHANGED <<cmd, pool, pager>>

BetweenStep ==
  /\ \E attr \in PlainPaths, lo \in Literals, hi \in Literals :
      Step(Call("between", attr, <<lo, hi>>, <<>>))
  /\ UNCHANGED <<cmd, pool, pager>>

InStep ==
  /\ \E attr \in PlainPaths, vs \in SeqsUpTo(InEntries, MaxInLen) : Step(Call("in", attr, vs, <<>>))
  /\ UNCHANGED <<cmd, pool, pager>>

LogicalStep ==
  /\ \E op \in LogicalOps, cs \in SeqsUpTo(LogicalFragments, MaxConds) :
       Step(Call(op, <<>>, <<>>, cs))
  /\ UNCHANGED <<cmd, pool, pager>>

NotStep ==
  /\ \E f \in HandFragments : Step(Call("not", <<>>, <<>>, <<f>>))
  /\ UNCHANGED <<cmd, pool, pager>>

NextBuilder ==
  \/ CompareStep
  \/ FnStep
  \/ SizeCompareStep
  \/ SingleAttributeStep
  \/ BetweenStep
  \/ InStep
  \/ LogicalStep
  \/ NotStep

SpecBuilder == InitBuilder /\ [][NextBuilder]_vars

----------------------------------------------------------------------------
(* Runs of a sort-key condition builder created over the builder: direct    *)
(* comparisons on the builder, and calls through the adapter.  cmd records  *)
(* the last adapter call: the bound attribute, the call, the builder before *)
(* it, and the builder and result after it.                                 *)

\* every method name of the expression builder
MethodNames ==
  CompareOps \cup FnOps \cup SingleOps \cup SizeOps \cup LogicalOps \cup {"between", "in", "not"}

\* attributes a sort-key condition builder is bound to
SortKeyAttributes == {<<"a">>, <<"b">>}

\* argument lists of an adapter call
SortKeyArgs == {<<"x">>, <<"x", "y">>}

SortKeyStep ==
  /\ \E sortKeyAttribute \in SortKeyAttributes, op \in MethodNames, vals \in SortKeyArgs :
       /\ (op = "between") <=> (Len(vals) = 2)
       /\ builder.counter + Len(vals) <= MaxValues
       /\ cmd' = Cmd("createSortKeyConditionBuilder",
                     [sortKeyAttribute |-> sortKeyAttribute,
                      call |-> Call(op, <<>>, vals, <<>>), before |-> builder],
                     SortKeyInvoke(builder, sortKeyAttribute, Call(op, <<>>, vals, <<>>)))
       /\ call' = Call(op, sortKeyAttribute, vals, <<>>)
       /\ bound' = bound \o (IF op \in SortKeyOps THEN vals ELSE <<>>)
  /\ builder' = cmd'.out.b
  /\ result' = cmd'.out.res
  /\ UNCHANGED <<pool, pager>>

NextSortKey ==
  \/ CompareStep
  \/ SortKeyStep

SpecSortKey == InitBuilder /\ [][NextSortKey]_vars

----------------------------------------------------------------------------
(* Properties of one expression builder *)

Contains(s, sub) ==
  \E i \in 1..(Len(s) - Len(sub) + 1) : SubSeq(s, i, i + Len(sub) - 1) = sub

\* methods that resolve an attribute path
AttrOps == CompareOps \cup FnOps \cup SizeOps \cup SingleOps \cup {"between", "in"}

\* C3: the k-th value bound on a builder, counting from 0 in call order
\* (between binds lo then hi, in binds its defined entries left to right),
\* is stored under ':val<k>': the indices start at 0, have no gap and are
\* never reused, and exists / notExists / size do not advance the counter.
C3_ValueIndicesFollowCallOrder ==
  /\ builder.counter = Len(bound)
  /\ DOMAIN builder.values = {ValKey(k) : k \in 0..(Len(bound) - 1)}
  /\ \A k \in 0..(Len(bound) - 1) : builder.values[ValKey(k)] = bound[k + 1]

\* three values are bound, the last two by one between(lo, hi) with lo # hi,
\* and a name-only call has been made afterwards
C3_Witness ==
  /\ Len(bound) >= 3
  /\ bound[2] # bound[3]
  /\ call.op \in SingleOps

\* C4: resolving a segment again returns the same placeholder '#<segment>'
\* and leaves the names map as it was: the map holds exactly one entry
\* '#<segment>' -> segment per distinct segment resolved so far (a path
\* without segments resolves to '#', entered once with the empty name).
C4_SegmentResolvesToOnePlaceholder ==
  [][/\ \A k \in DOMAIN builder'.names : k = NameKey(builder'.names[k])
     /\ (call'.op \in AttrOps /\ result'.kind = "ok") =>
          \A segs \in {Segments(call'.attr)} :
            /\ \A ref \in {IF segs = <<>> THEN <<"#">> ELSE Ref(segs)} :
                 Contains(result'.val, ref)
            /\ DOMAIN builder'.names =
                 DOMAIN builder.names \cup
                   (IF segs = <<>> THEN {<<"#">>}
                    ELSE {NameKey(segs[i]) : i \in 1..Len(segs)})
            /\ \A k \in DOMAIN builder.names : builder'.names[k] = builder.names[k]
            /\ \A i \in 1..Len(segs) : builder'.names[NameKey(segs[i])] = segs[i]]_vars

\* segment a has been resolved by at least two value-producing calls, the
\* last one through the padded path ' a', and the names map has one entry
C4_Witness ==
  /\ call.op \in CompareOps
  /\ call.attr = <<" ", "a">>
  /\ builder.counter >= 2
  /\ DOMAIN builder.names = {<<"#", "a">>}

\* C5: a call that throws leaves names, values and counter untouched, and
\* the next successful value-producing call gets the index it would have
\* got without the failing call (the number of values bound so far).
C5_FailedCallLeavesBuilderUntouched ==
  [][/\ (result'.kind = "throw" => builder' = builder)
     /\ (result.kind = "throw" /\ result'.kind = "ok" /\ Binds(call') # <<>> =>
           /\ Has(builder'.values, ValKey(Len(bound)))
           /\ builder'.values[ValKey(Len(bound))] = Binds(call')[1]
           /\ Contains(result'.val, ValKey(Len(bound))))]_vars

\* in() has thrown on a builder that already holds a value, for a path
\* whose segment the builder has not seen
C5_Witness ==
  /\ result.kind = "throw"
  /\ call.op = "in"
  /\ builder.counter > 0
  /\ call.attr = <<"a", ".", "b">>
  /\ ~Has(builder.names, <<"#", "b">>)

\* C8: and / or throw a TypeError on zero fragments, and otherwise return
\* the fragments in argument order joined by ' AND ' / ' OR ' inside one
\* added parenthesis pair.
C8_LogicalJoinsInOnePair ==
  call.op \in LogicalOps =>
    IF Len(call.conds) = 0
    THEN /\ result.kind = "throw"
         /\ result.err = (IF call.op = "and"
                          THEN "TypeError: and() requires at least one condition"
                          ELSE "TypeError: or() requires at least one condition")
    ELSE /\ result.kind = "ok"
         /\ result.val =
              <<"(">> \o Join(call.conds, IF call.op = "and" THEN StrAND ELSE StrOR) \o <<")">>

\* and(f) with the single fragment 'a' returned '(a)'
C8_Witness ==
  /\ call.op = "and"
  /\ call.conds = <<(<<"a">>)>>
  /\ result.val = <<"(", "a", ")">>

\* C9: in() throws a TypeError when no entry remains after the undefined
\* entries are dropped, with one message for an empty list and another for
\* a list that held only undefined.
C9_InTellsEmptyFromAllUndefined ==
  (call.op = "in" /\ SelectSeq(call.vals, Defined) = <<>>) =>
    /\ result.kind = "throw"
    /\ result.err = (IF Len(call.vals) = 0
                     THEN "TypeError: in() requires at least one value"
                     ELSE "TypeError: in() requires at least one non-undefined value")

\* in(attr, [undefined, undefined]) has thrown
C9_Witness ==
  /\ call.op = "in"
  /\ call.vals = <<Undef, Undef>>
  /\ result.kind = "throw"

RECURSIVE Depth(_, _)
\* the number of parentheses open after the first i characters of s
Depth(s, i) ==
  IF i = 0 THEN 0
  ELSE Depth(s, i - 1) + (IF s[i] = "(" THEN 1 ELSE IF s[i] = ")" THEN 0 - 1 ELSE 0)

Balanced(s) ==
  /\ \A i \in 1..Len(s) : Depth(s, i) >= 0
  /\ Depth(s, Len(s)) = 0

\* the first character opens a pair that the last character closes
WhollyWrapped(s) ==
  /\ Len(s) >= 2
  /\ s[1] = "("
  /\ s[Len(s)] = ")"
  /\ \A i \in 1..(Len(s) - 1) : Depth(s, i) > 0

\* C10: for a fragment with balanced parentheses, not(fragment) is NOT
\* applied to the whole fragment inside exactly one enclosing pair: the
\* outer pair is reused when the fragment is wholly wrapped in one, and a
\* pair is added otherwise.
C10_NotEnclosesWholeFragment ==
  (call.op = "not" /\ Balanced(call.conds[1])) =>
    LET f == call.conds[1]
        t == Trim(f)
    IN /\ result.kind = "ok"
       /\ result.val = (IF WhollyWrapped(t)
                        THEN StrNOT \o t
                        ELSE StrNOT \o <<"(">> \o f \o <<")">>)

----------------------------------------------------------------------------
(* Inputs of the command builders and table operations *)

\* keys and values of an updates map
UpdateKeys == {<<"a">>, <<"b">>, <<"a", ".", "b">>}
UpdateValues == {"x", Null, Undef}

\* updates maps: up to MaxUpdates entries with distinct keys, in insertion order
UpdatesMaps ==
  {u \in SeqsUpTo(UpdateKeys \X UpdateValues, MaxUpdates) :
     \A i, j \in 1..Len(u) : i # j => u[i][1] # u[j][1]}

\* builders buildUpdateExpression is handed: a fresh one, one already used
UsedBuilder == compare(NewBuilder, <<"=">>, <<"b">>, "y").b
Builders == {NewBuilder, UsedBuilder}

\* condition / filter callbacks: c.eq('a', 'y'); c.exists('b');
\* c.and(c.eq('a', 'y'), c.eq('b', 'x'))
Callbacks ==
  {NoCallback,
   Callback(<<Call("eq", <<"a">>, <<"y">>, <<>>)>>, "single"),
   Callback(<<Call("exists", <<"b">>, <<>>, <<>>)>>, "single"),
   Callback(<<Call("eq", <<"a">>, <<"y">>, <<>>), Call("eq", <<"b">>, <<"x">>, <<>>)>>, "and")}

\* sortKey callbacks: sk.eq('x'), sk.between('x', 'y'), sk.beginsWith('x')
SortKeyCallbacks ==
  {NoCallback,
   Callback(<<Call("eq", <<>>, <<"x">>, <<>>)>>, "single"),
   Callback(<<Call("between", <<>>, <<"x", "y">>, <<>>)>>, "single"),
   Callback(<<Call("beginsWith", <<>>, <<"x">>, <<>>)>>, "single")}

\* sort-key conditions written by hand: none, '#sk = :sk', 'begins_with(#sk, :sk)'
HandConditions ==
  {Undef,
   <<"#", "s", "k", " ", "=", " ", ":", "s", "k">>,
   <<"b", "e", "g", "i", "n", "s", "_", "w", "i", "t", "h", "(", "#", "s", "k", ",", " ",
     ":", "s", "k", ")">>}

\* projection lists: none given, or up to MaxProjection of the paths a, a.b, ''
Projections ==
  {None} \cup {Some(p) : p \in SeqsUpTo({<<"a">>, <<"a", ".", "b">>, <<>>}, MaxProjection)}

\* requests of a transaction: a put, an update, a conditional delete, an
\* update of nothing, a conditional put
RequestKinds ==
  {Request("put", (<<"a">> :> "k1") @@ (<<"c">> :> "z"), EmptyMap, <<>>, NoCallback),
   Request("update", EmptyMap, (<<"a">> :> "k1") @@ (<<"b">> :> "k2"),
           <<<<<<"c">>, "x">>>>, NoCallback),
   Request("delete", EmptyMap, (<<"a">> :> "k1") @@ (<<"b">> :> "k2"), <<>>,
           Callback(<<Call("exists", <<"b">>, <<>>, <<>>)>>, "single")),
   Request("update", EmptyMap, (<<"a">> :> "k1") @@ (<<"b">> :> "k2"), <<>>, NoCallback),
   Request("put", (<<"a">> :> "k2"), EmptyMap, <<>>,
           Callback(<<Call("eq", <<"a">>, <<"y">>, <<>>)>>, "single"))}

\* the request lists tried: n requests that repeat one or two kinds in turn
RequestPatterns == {p \in SeqsUpTo(RequestKinds, 2) : Len(p) > 0}
RequestList(n, pattern) == [i \in 1..n |-> pattern[((i - 1) % Len(pattern)) + 1]]

\* key configurations: partition key a with sort key b, partition key a alone
KeyConfigs ==
  {[pk |-> <<"a">>, sk |-> <<"b">>, pkText |-> "a", skText |-> "b"],
   [pk |-> <<"a">>, sk |-> <<>>, pkText |-> "a", skText |-> ""]}

\* an index keyed by b with sort key a
Indexes == ("byB" :> [key |-> [pk |-> <<"b">>, sk |-> <<"a">>, pkText |-> "b", skText |-> "a"]])

Configs == {[tableName |-> "t", key |-> k, indexes |-> Indexes] : k \in KeyConfigs}

\* key inputs: complete, without the sort key, empty
KeyInputs ==
  {(<<"a">> :> "k1") @@ (<<"b">> :> "k2"), (<<"a">> :> "k1"), EmptyMap}

\* partition key values of a query
PartitionKeys == {(<<"a">> :> "p1") @@ (<<"b">> :> "p2")}

Limits == {0, 10}

\* Attributes of the client's response to an update: none, or the item
Responses == {None, Some(marshall((<<"a">> :> "k1") @@ (<<"c">> :> "z")))}

\* key inputs and items whose key fields are absent, undefined, null or set
TableKeyInputs ==
  {Spread(IF a = "absent" THEN EmptyMap ELSE (<<"a">> :> a),
          IF b = "absent" THEN EmptyMap ELSE (<<"b">> :> b)) :
     a \in {"absent", Undef, Null, "k1"}, b \in {"absent", Undef, Null, "k2"}}

----------------------------------------------------------------------------
(* Builds and table operations: each run makes one call and records it *)

InitCmd == InitBuilder

BuildUpdateExpression ==
  /\ cmd = NoCmd
  /\ \E updates \in UpdatesMaps, b \in Builders :
       cmd' = Cmd("buildUpdateExpression", [updates |-> updates, b |-> b],
                  buildUpdateExpression(updates, b))
  /\ UNCHANGED <<builder, call, result, bound, pool, pager>>

BuildUpdateItemCommand ==
  /\ cmd = NoCmd
  /\ \E key \in {k \in KeyInputs : Size(k) = 2}, updates \in UpdatesMaps,
        condition \in Callbacks, config \in {c \in Configs : c.key.sk # <<>>} :
       cmd' = Cmd("buildUpdateItemCommand",
                  [key |-> key, updates |-> updates, condition |-> condition,
                   config |-> config],
                  buildUpdateItemCommand(key, updates, [condition |-> condition], config))
  /\ UNCHANGED <<builder, call, result, bound, pool, pager>>

BuildQueryCommand ==
  /\ cmd = NoCmd
  /\ \E partitionKey \in PartitionKeys, sortKey \in SortKeyCallbacks, filter \in Callbacks,
        limit \in Limits, config \in Configs :
       cmd' = Cmd("buildQueryCommand",
                  [partitionKey |-> partitionKey, sortKey |-> sortKey, filter |-> filter,
                   limit |-> limit, keyConfig |-> config.key],
                  buildQueryCommand(partitionKey,
                                    [sortKey |-> sortKey, filter |-> filter, limit |-> limit],
                                    config))
  /\ UNCHANGED <<builder, call, result, bound, pool, pager>>

BuildQueryIndexCommand ==
  /\ cmd = NoCmd
  /\ \E indexName \in {"byB", "missing"}, partitionKey \in PartitionKeys,
        sortKey \in SortKeyCallbacks, filter \in Callbacks, limit \in Limits,
        config \in Configs :
       cmd' = Cmd("buildQueryIndexCommand",
                  [partitionKey |-> partitionKey, sortKey |-> sortKey, filter |-> filter,
                   limit |-> limit,
                   keyConfig |-> IF Has(config.indexes, indexName)
                                 THEN config.indexes[indexName].key ELSE config.key,
                   indexName |-> indexName],
                  buildQueryIndexCommand(indexName, partitionKey,
                                         [sortKey |-> sortKey, filter |-> filter,
                                          limit |-> limit],
                                         config))
  /\ UNCHANGED <<builder, call, result, bound, pool, pager>>

\* keys of the updates a table entity accepts: plain field names
TableUpdatesMaps == {u \in UpdatesMaps : \A i \in 1..Len(u) : Len(u[i][1]) = 1}

TableUpdate ==
  /\ cmd = NoCmd
  /\ \E key \in KeyInputs \cup TableKeyInputs, updates \in TableUpdatesMaps,
        attributes \in Responses, keyConfig \in KeyConfigs :
       cmd' = Cmd("table.update",
                  [key |-> key, updates |-> updates, attributes |-> attributes,
                   keyConfig |-> keyConfig],
                  tableUpdate([tableName |-> "t", keyConfig |-> keyConfig],
                              key, updates, attributes))
  /\ UNCHANGED <<builder, call, result, bound, pool, pager>>

TableGet ==
  /\ cmd = NoCmd
  /\ \E key \in TableKeyInputs, item \in Responses, keyConfig \in KeyConfigs :
       cmd' = Cmd("table.get",
                  [key |-> key, updates |-> <<>>, attributes |-> item,
                   keyConfig |-> keyConfig],
                  tableGet([tableName |-> "t", keyConfig |-> keyConfig], key, item))
  /\ UNCHANGED <<builder, call, result, bound, pool, pager>>

TablePut ==
  /\ cmd = NoCmd
  /\ \E item \in TableKeyInputs, attributes \in Responses, keyConfig \in KeyConfigs :
       cmd' = Cmd("table.put",
                  [key |-> item, updates |-> <<>>, attributes |-> attributes,
                   keyConfig |-> keyConfig],
                  tablePut([tableName |-> "t", keyConfig |-> keyConfig], item, attributes))
  /\ UNCHANGED <<builder, call, result, bound, pool, pager>>

TableRemove ==
  /\ cmd = NoCmd
  /\ \E key \in TableKeyInputs, keyConfig \in KeyConfigs :
       cmd' = Cmd("table.remove",
                  [key |-> key, updates |-> <<>>, attributes |-> None,
                   keyConfig |-> keyConfig],
                  tableRemove([tableName |-> "t", keyConfig |-> keyConfig], key))
  /\ UNCHANGED <<builder, call, result, bound, pool, pager>>

\* attribute paths: plain, dotted, empty, with an empty segment, padded
CompiledPaths ==
  {<<"a">>, <<"a", ".", "b">>, <<>>, <<"a", ".", ".", "b">>, <<" ", "a", ".", "b">>,
   <<"a", " ">>}

\* one path compiled three ways on builders alike: as the key of an update,
\* as a projected attribute, as the attribute of a builder operator
CompilePath ==
  /\ cmd = NoCmd
  /\ \E path \in CompiledPaths, b \in Builders :
       cmd' = Cmd("compilePath", [path |-> path, b |-> b],
                  [update |-> buildUpdateExpression(<< <<path, "x">> >>, b),
                   projection |-> buildProjectionExpression(<<path>>, b),
                   operator |-> getAttrName(b, path)])
  /\ UNCHANGED <<builder, call, result, bound, pool, pager>>

\* attribute maps handed to mergeAndNormalize: undefined, {}, { '#a': 'a' },
\* { '#a': 'b' }, { '#b': 'b' }
AttributeMaps ==
  {None, Some(EmptyMap), Some((<<"#", "a">> :> <<"a">>)), Some((<<"#", "a">> :> <<"b">>)),
   Some((<<"#", "b">> :> <<"b">>))}

MergeAndNormalize ==
  /\ cmd = NoCmd
  /\ \E parts \in SeqsUpTo(AttributeMaps, 2) :
       cmd' = Cmd("mergeAndNormalize", [parts |-> parts], mergeAndNormalize(parts))
  /\ UNCHANGED <<builder, call, result, bound, pool, pager>>

\* keys of a batch: partition keys 'p' and 'p::q', sort keys 's' and 'q::s'
BatchKeys ==
  {(<<"a">> :> pk) @@ (<<"b">> :> sk) :
     pk \in {<<"p">>, <<"p", ":", ":", "q">>}, sk \in {<<"s">>, <<"q", ":", ":", "s">>}}

\* the items stored under those keys
BatchItems == {k @@ (<<"n">> :> k[<<"a">>] \o <<"/">> \o k[<<"b">>]) : k \in BatchKeys}

\* lists without repeats
Distinct(s) == \A i, j \in 1..Len(s) : i # j => s[i] # s[j]

SortBatchResults ==
  /\ cmd = NoCmd
  /\ \E keys \in {s \in SeqsUpTo(BatchKeys, 2) : Distinct(s)},
        items \in {s \in SeqsUpTo(BatchItems, 2) : Distinct(s)} :
       \E keyConfig \in {k \in KeyConfigs : k.sk # <<>>} :
         cmd' = Cmd("sortBatchResults",
                    [keys |-> keys, items |-> items, keyConfig |-> keyConfig],
                    sortBatchResults(keys, items, keyConfig))
  /\ UNCHANGED <<builder, call, result, bound, pool, pager>>

UtilsBuildKeyConditionExpression ==
  /\ cmd = NoCmd
  /\ \E pkField \in {<<"a">>, <<"b">>}, pkValue \in {"p1", "p2"},
        skField \in {Undef, <<"a">>, <<"b">>}, skCondition \in HandConditions :
       cmd' = Cmd("utils.buildKeyConditionExpression",
                  [pkField |-> pkField, pkValue |-> pkValue, skField |-> skField,
                   skCondition |-> skCondition],
                  utilsBuildKeyConditionExpression(pkField, pkValue, skField, skCondition))
  /\ UNCHANGED <<builder, call, result, bound, pool, pager>>

BuildGetItemCommand ==
  /\ cmd = NoCmd
  /\ \E key \in KeyInputs, projection \in Projections, consistentRead \in {Undef, "true"},
        config \in Configs :
       cmd' = Cmd("buildGetItemCommand",
                  [key |-> key, projection |-> projection, config |-> config],
                  buildGetItemCommand(key, [projection |-> projection,
                                            consistentRead |-> consistentRead], config))
  /\ UNCHANGED <<builder, call, result, bound, pool, pager>>

BuildBatchGetItemCommand ==
  /\ cmd = NoCmd
  /\ \E keys \in SeqsUpTo({k \in KeyInputs : Size(k) = 2}, 2), projection \in Projections,
        consistentRead \in {Undef, "true"}, config \in Configs :
       cmd' = Cmd("buildBatchGetItemCommand",
                  [keys |-> keys, projection |-> projection, config |-> config],
                  buildBatchGetItemCommand(keys, [projection |-> projection,
                                                  consistentRead |-> consistentRead], config))
  /\ UNCHANGED <<builder, call, result, bound, pool, pager>>

BuildTransactWriteItemsCommand ==
  /\ cmd = NoCmd
  /\ \E n \in 0..MaxRequests, pattern \in RequestPatterns, config \in Configs :
       cmd' = Cmd("buildTransactWriteItemsCommand",
                  [requests |-> RequestList(n, pattern), config |-> config],
                  buildTransactWriteItemsCommand(RequestList(n, pattern), config))
  /\ UNCHANGED <<builder, call, result, bound, pool, pager>>

Transaction ==
  /\ cmd = NoCmd
  /\ \E n \in 0..MaxRequests, pattern \in RequestPatterns, config \in Configs,
        rejects \in BOOLEAN :
       cmd' = Cmd("transaction",
                  [requests |-> RequestList(n, pattern), config |-> config,
                   rejects |-> rejects],
                  transaction(config, RequestList(n, pattern), rejects))
  /\ UNCHANGED <<builder, call, result, bound, pool, pager>>

NextCmd ==
  \/ BuildUpdateExpression
  \/ BuildUpdateItemCommand
  \/ BuildQueryCommand
  \/ BuildQueryIndexCommand
  \/ UtilsBuildKeyConditionExpression
  \/ BuildGetItemCommand
  \/ BuildBatchGetItemCommand
  \/ BuildTransactWriteItemsCommand
  \/ Transaction
  \/ TableUpdate
  \/ TableGet
  \/ TablePut
  \/ TableRemove
  \/ CompilePath
  \/ MergeAndNormalize
  \/ SortBatchResults

SpecCmd == InitCmd /\ [][NextCmd]_vars

----------------------------------------------------------------------------
(* Properties of the command builders *)

Alnum ==
  {"a", "b", "c", "d", "e", "f", "g", "h", "i", "j", "k", "l", "m", "n", "o", "p", "q",
   "r", "s", "t", "u", "v", "w", "x", "y", "z",
   "0", "1", "2", "3", "4", "5", "6", "7", "8", "9"}

RECURSIVE WordEnd(_, _)
\* the last position of the run of letters and digits that follows position i
WordEnd(s, i) ==
  IF i < Len(s) /\ s[i + 1] \in Alnum THEN WordEnd(s, i + 1) ELSE i

RECURSIVE ValueRefsFrom(_, _)
ValueRefsFrom(s, i) ==
  IF i > Len(s) THEN <<>>
  ELSE IF s[i] = ":"
  THEN <<SubSeq(s, i, WordEnd(s, i))>> \o ValueRefsFrom(s, WordEnd(s, i) + 1)
  ELSE ValueRefsFrom(s, i + 1)

\* the value placeholders that occur in an expression, in order of occurrence
ValueRefs(s) == ValueRefsFrom(s, 1)

RECURSIVE BindsOfCalls(_)
\* the values a callback passes to the operators, in call order
BindsOfCalls(calls) ==
  IF Len(calls) = 0 THEN <<>> ELSE Binds(calls[1]) \o BindsOfCalls(Tail(calls))

\* every placeholder of the expression maps, in the merged values, to the
\* marshalled value supplied for it
MapsTo(input, expression, supplied) ==
  \A refs \in {ValueRefs(input[expression])} :
    /\ Len(refs) = Len(supplied)
    /\ \A i \in 1..Len(refs) :
         /\ Has(input["ExpressionAttributeValues"], refs[i])
         /\ input["ExpressionAttributeValues"][refs[i]] = MarshallValue(supplied[i])

\* the values of the entries of an updates map
ValuesOf(entries) == [i \in 1..Len(entries) |-> entries[i][2]]

\* C1: in an update command with a condition, every value placeholder of
\* UpdateExpression maps in ExpressionAttributeValues to the value supplied
\* for its field in the updates map, and every value placeholder of
\* ConditionExpression to the value passed to the condition operator.
C1_UpdateAndConditionValuesKept ==
  (cmd.op = "buildUpdateItemCommand" /\ cmd.out.res.kind = "ok" /\ Given(cmd.args.condition)) =>
    /\ MapsTo(cmd.out.input, "UpdateExpression",
              ValuesOf(SelectSeq(cmd.args.updates, EntryIsSet)))
    /\ MapsTo(cmd.out.input, "ConditionExpression", BindsOfCalls(cmd.args.condition.calls))

\* C2: in a query command with a sortKey condition and a filter, ':pk' and
\* the sort-key placeholders of KeyConditionExpression map to the partition
\* key and sort-key values supplied, and every value placeholder of
\* FilterExpression to the value passed to the filter operator.
C2_KeyConditionAndFilterValuesKept ==
  (/\ cmd.op \in {"buildQueryCommand", "buildQueryIndexCommand"}
   /\ cmd.out.res.kind = "ok"
   /\ cmd.args.keyConfig.sk # <<>>
   /\ Given(cmd.args.sortKey)
   /\ Given(cmd.args.filter)) =>
    /\ MapsTo(cmd.out.input, "KeyConditionExpression",
              <<cmd.args.partitionKey[cmd.args.keyConfig.pk]>>
                \o BindsOfCalls(cmd.args.sortKey.calls))
    /\ MapsTo(cmd.out.input, "FilterExpression", BindsOfCalls(cmd.args.filter.calls))

\* the entries buildUpdateExpression leaves out of SET / writes with SET
Removed(e) == e[2] \in {Null, Undef}
Written(e) == e[2] \notin {Null, Undef}

\* C6: on a fresh builder buildUpdateExpression classifies every key of the
\* updates map exactly once: a null or undefined value gives one REMOVE
\* clause and no value entry, any other value one SET clause '<ref> = <val>'
\* and one value entry holding it; the names map holds every path segment
\* of every key, and the values map has as many entries as SET clauses.
C6_EveryKeyClassifiedOnce ==
  (cmd.op = "buildUpdateExpression" /\ cmd.args.b = NewBuilder) =>
    \A written \in {SelectSeq(cmd.args.updates, Written)} :
    \A removed \in {SelectSeq(cmd.args.updates, Removed)} :
      /\ Len(cmd.out.setExpressions) = Len(written)
      /\ \A i \in 1..Len(written) :
           /\ cmd.out.setExpressions[i] = RawRef(written[i][1]) \o StrEq \o ValKey(i - 1)
           /\ Has(cmd.out.b.values, ValKey(i - 1))
           /\ cmd.out.b.values[ValKey(i - 1)] = written[i][2]
      /\ Size(cmd.out.b.values) = Len(cmd.out.setExpressions)
      /\ Len(cmd.out.removeExpressions) = Len(removed)
      /\ \A i \in 1..Len(removed) : cmd.out.removeExpressions[i] = RawRef(removed[i][1])
      /\ \A i \in 1..Len(cmd.args.updates) :
           \A segments \in {Split(cmd.args.updates[i][1], ".")} :
             \A j \in 1..Len(segments) :
               /\ Has(cmd.out.b.names, <<"#">> \o segments[j])
               /\ cmd.out.b.names[<<"#">> \o segments[j]] = segments[j]
      /\ cmd.out.res.kind = "ok" =>
           /\ \A i \in 1..Len(written) : Contains(cmd.out.res.val, cmd.out.setExpressions[i])
           /\ \A i \in 1..Len(removed) : Contains(cmd.out.res.val, cmd.out.removeExpressions[i])

\* { 'a.b': null, a: 'x' } has been compiled on a fresh builder: one REMOVE
\* clause, one SET clause, one value, the names of both segments
C6_Witness ==
  /\ cmd.op = "buildUpdateExpression"
  /\ cmd.args.b = NewBuilder
  /\ cmd.args.updates = << <<(<<"a", ".", "b">>), Null>>, <<(<<"a">>), "x">> >>
  /\ cmd.out.res.kind = "ok"
  /\ Size(cmd.out.b.values) = 1
  /\ Size(cmd.out.b.names) = 2

\* C7: an update with zero keys fails and yields neither an empty expression
\* nor a request: buildUpdateExpression throws 'UpdateExpression cannot be
\* empty' exactly when the updates map has no keys (so no update command is
\* built from one), and table.update rejects with 'Updates object cannot be
\* empty' before anything is sent to the client.
C7_EmptyUpdateAlwaysFails ==
  /\ cmd.op = "buildUpdateExpression" =>
       /\ (cmd.out.res = Throw("Error: UpdateExpression cannot be empty"))
            <=> (Len(cmd.args.updates) = 0)
       /\ cmd.out.res.kind = "ok" => cmd.out.res.val # <<>>
  /\ (cmd.op = "buildUpdateItemCommand" /\ Len(cmd.args.updates) = 0) =>
       cmd.out.res = Throw("Error: UpdateExpression cannot be empty")
  /\ (cmd.op = "table.update" /\ Len(cmd.args.updates) = 0) =>
       /\ cmd.out.res = Throw("Error: Updates object cannot be empty")
       /\ cmd.out.sent = <<>>

\* table.update has been called with a complete key and an updates map
\* without keys, and has rejected
C7_Witness ==
  /\ cmd.op = "table.update"
  /\ Len(cmd.args.updates) = 0
  /\ Size(cmd.args.key) = 2
  /\ cmd.out.res.kind = "throw"
  /\ cmd.out.sent = <<>>

----------------------------------------------------------------------------
(* Several builders side by side *)

\* most builders made in a run
MaxBuilders == 2

\* calls made on the builders: eq('a', 'x'), between('b', 'x', 'y'),
\* exists('a.b'), in('a', [undefined])
PoolCalls ==
  {Call("eq", <<"a">>, <<"x">>, <<>>),
   Call("between", <<"b">>, <<"x", "y">>, <<>>),
   Call("exists", <<"a", ".", "b">>, <<>>, <<>>),
   Call("in", <<"a">>, <<Undef>>, <<>>)}

CreateBuilder ==
  /\ Len(pool.made) < MaxBuilders
  /\ pool' = createExpressionBuilder(pool)
  /\ UNCHANGED <<builder, call, result, bound, cmd, pager>>

\* one method call on one of the builders made
CallBuilder ==
  /\ \E i \in 1..Len(pool.made), c \in PoolCalls :
       /\ Closure(pool, pool.made[i]).counter + Len(Binds(c)) <= MaxValues
       /\ pool' = [Stored(pool, pool.made[i],
                          Invoke(Closure(pool, pool.made[i]), c).b) EXCEPT !.active = i]
  /\ UNCHANGED <<builder, call, result, bound, cmd, pager>>

NextPool ==
  \/ CreateBuilder
  \/ CallBuilder

SpecPool == InitBuilder /\ [][NextPool]_vars

\* C12: two builders returned by createExpressionBuilder share no state: a
\* call on one leaves the names, values and counter of every other builder
\* unchanged, and each builder numbers its own values from :val0 whatever
\* was done on the others.
C12_BuildersShareNoState ==
  [][/\ \A j \in 1..Len(pool.made) :
          (Len(pool'.made) = Len(pool.made) /\ j # pool'.active) =>
            Closure(pool', pool'.made[j]) = Closure(pool, pool.made[j])
     /\ Len(pool'.made) > Len(pool.made) =>
          /\ Closure(pool', pool'.made[Len(pool'.made)]) = NewBuilder
          /\ \A j \in 1..Len(pool.made) :
               Closure(pool', pool'.made[j]) = Closure(pool, pool.made[j])
     /\ \A j \in 1..Len(pool'.made) :
          \A b \in {Closure(pool', pool'.made[j])} :
            DOMAIN b.values = {ValKey(k) : k \in 0..(Size(b.values) - 1)}]_vars

\* the second builder has bound its first value while the first builder
\* holds three
C12_Witness ==
  /\ Len(pool.made) = 2
  /\ pool.active = 2
  /\ Closure(pool, pool.made[1]).counter = 3
  /\ DOMAIN Closure(pool, pool.made[2]).values = {ValKey(0)}

----------------------------------------------------------------------------
(* Properties of the sort-key condition builder *)

\* C11: a sort-key condition builder over builder B for attribute A exposes
\* exactly eq, lt, lte, gt, gte, between and beginsWith, and adapter.op(args)
\* returns the fragment of B.op(A, args) and has its effect on B's names,
\* values and counter: its placeholders continue B's numbering.
C11_AdapterActsAsBuilderOnBoundAttribute ==
  (cmd.op = "createSortKeyConditionBuilder") =>
    IF cmd.args.call.op \in {"eq", "lt", "lte", "gt", "gte", "between", "beginsWith"}
    THEN /\ cmd.out = Invoke(cmd.args.before,
                             Call(cmd.args.call.op, cmd.args.sortKeyAttribute,
                                  cmd.args.call.vals, <<>>))
         /\ cmd.out.res.kind = "ok"
         /\ cmd.out.b.counter = cmd.args.before.counter + Len(cmd.args.call.vals)
         /\ \A i \in 1..Len(cmd.args.call.vals) :
              /\ Contains(cmd.out.res.val, ValKey(cmd.args.before.counter + i - 1))
              /\ cmd.out.b.values[ValKey(cmd.args.before.counter + i - 1)] =
                   cmd.args.call.vals[i]
         /\ \A k \in DOMAIN cmd.args.before.values :
              cmd.out.b.values[k] = cmd.args.before.values[k]
    ELSE /\ cmd.out.res.kind = "throw"
         /\ cmd.out.b = cmd.args.before

\* the adapter's between('x', 'y') has been called on a builder that had
\* bound one value: it took :val1 and :val2
C11_Witness ==
  /\ cmd.op = "createSortKeyConditionBuilder"
  /\ cmd.args.call.op = "between"
  /\ cmd.args.before.counter = 1
  /\ cmd.out.b.counter = 3
  /\ builder = cmd.out.b

----------------------------------------------------------------------------
(* Comparisons on dotted paths *)

\* a, a.b, items[0], a.items[0].a, a..b
DottedPaths ==
  {<<"a">>,
   <<"a", ".", "b">>,
   <<"i", "t", "e", "m", "s", "[", "0", "]">>,
   <<"a", ".", "i", "t", "e", "m", "s", "[", "0", "]", ".", "a">>,
   <<"a", ".", ".", "b">>}

PathCompareStep ==
  /\ \E op \in CompareOps, attr \in DottedPaths, v \in Literals :
       Step(Call(op, attr, <<v>>, <<>>))
  /\ UNCHANGED <<cmd, pool, pager>>

NextPath == PathCompareStep

SpecPath == InitBuilder /\ [][NextPath]_vars

\* the pieces of a path between its dots
Pieces(attr) == Split(attr, ".")

\* every piece is non-empty and carries no blank at either end
PlainPieces(attr) ==
  \A i \in 1..Len(Pieces(attr)) :
    /\ Pieces(attr)[i] # <<>>
    /\ Trim(Pieces(attr)[i]) = Pieces(attr)[i]

\* C13: a comparison on a dotted path s1.s2...sn with non-empty segments
\* emits the reference '#s1.#s2...#sn' and adds to the names map exactly the
\* entries '#si' -> si, one per distinct segment; a segment with a bracketed
\* index such as items[0] stays one segment ('#items[0]' -> 'items[0]').
C13_DottedPathOnePlaceholderPerSegment ==
  [][(call'.op \in CompareOps /\ PlainPieces(call'.attr)) =>
       \A s \in {Pieces(call'.attr)} :
         /\ result' = Ok(Join([i \in 1..Len(s) |-> <<"#">> \o s[i]], <<".">>)
                         \o <<" ">> \o OpText(call'.op) \o <<" ">>
                         \o ValKey(builder.counter))
         /\ DOMAIN builder'.names =
              DOMAIN builder.names \cup {<<"#">> \o s[i] : i \in 1..Len(s)}
         /\ \A i \in 1..Len(s) : builder'.names[<<"#">> \o s[i]] = s[i]
         /\ \A k \in DOMAIN builder.names : builder'.names[k] = builder.names[k]]_vars

\* a.items[0].a has been compared: two names for three segments
C13_Witness ==
  /\ call.op \in CompareOps
  /\ call.attr = <<"a", ".", "i", "t", "e", "m", "s", "[", "0", "]", ".", "a">>
  /\ result.kind = "ok"
  /\ DOMAIN builder.names = {<<"#", "a">>, <<"#", "i", "t", "e", "m", "s", "[", "0", "]">>}

----------------------------------------------------------------------------
(* Properties of between and in *)

\* the entries of a list other than undefined, in list order
Kept(values) ==
  [i \in 1..Cardinality({j \in 1..Len(values) : values[j] # Undef}) |->
     values[CHOOSE j \in 1..Len(values) :
              /\ values[j] # Undef
              /\ Cardinality({k \in 1..j : values[k] # Undef}) = i]]

\* the placeholders :val<from> ... :val<from + n - 1>
Placeholders(from, n) == [i \in 1..n |-> ValKey(from + i - 1)]

\* the values map after the values vs have been bound from counter b.counter on
BoundOnTop(b, after, vs) ==
  /\ after.counter = b.counter + Len(vs)
  /\ DOMAIN after.values = DOMAIN b.values \cup {ValKey(b.counter + i - 1) : i \in 1..Len(vs)}
  /\ \A i \in 1..Len(vs) : after.values[ValKey(b.counter + i - 1)] = vs[i]

\* C14: between(attr, lo, hi) binds lo and then hi to two consecutive
\* placeholders, as given; in(attr, values) drops the undefined entries, keeps
\* null, and binds the entries left to consecutive placeholders in list
\* order; both start at the builder's current counter.
C14_BetweenAndInBindInOrder ==
  [][/\ call'.op = "between" =>
          /\ result' = Ok(Join([i \in 1..Len(Pieces(call'.attr)) |->
                                  <<"#">> \o Pieces(call'.attr)[i]], <<".">>)
                          \o <<" ", "B", "E", "T", "W", "E", "E", "N", " ">>
                          \o ValKey(builder.counter)
                          \o <<" ", "A", "N", "D", " ">>
                          \o ValKey(builder.counter + 1))
          /\ BoundOnTop(builder, builder', call'.vals)
     /\ (call'.op = "in" /\ \E j \in 1..Len(call'.vals) : call'.vals[j] # Undef) =>
          \A kept \in {Kept(call'.vals)} :
            /\ result' = Ok(Join([i \in 1..Len(Pieces(call'.attr)) |->
                                    <<"#">> \o Pieces(call'.attr)[i]], <<".">>)
                            \o <<" ", "I", "N", " ", "(">>
                            \o Join(Placeholders(builder.counter, Len(kept)), <<",", " ">>)
                            \o <<")">>)
            /\ BoundOnTop(builder, builder', kept)]_vars

\* between after one earlier eq: '#a BETWEEN :val1 AND :val2', with the
\* larger bound given first
C14_Witness ==
  /\ call = Call("between", <<"a">>, <<"y", "x">>, <<>>)
  /\ result = Ok(<<"#", "a", " ", "B", "E", "T", "W", "E", "E", "N", " ", ":", "v", "a", "l", "1",
                   " ", "A", "N", "D", " ", ":", "v", "a", "l", "2">>)
  /\ builder.values[ValKey(1)] = "y"
  /\ builder.values[ValKey(2)] = "x"

----------------------------------------------------------------------------
(* Properties of the key condition *)

\* C15: the key-condition expression begins with the partition-key equality
\* ('#<pkName> = :pk' in the command builder, '#pk = :pk' in utils), with the
\* partition key's name and value recorded in the maps, and ' AND <sort-key
\* fragment>' follows exactly when a sort key is configured and a sort-key
\* condition is supplied; otherwise the equality is the whole expression.
C15_KeyConditionStartsWithPartitionKey ==
  /\ (cmd.op \in {"buildQueryCommand", "buildQueryIndexCommand"} /\ cmd.out.res.kind = "ok") =>
       \A pk \in {cmd.args.keyConfig.pk} :
         /\ cmd.out.input["ExpressionAttributeNames"][<<"#">> \o pk] = pk
         /\ cmd.out.input["ExpressionAttributeValues"][<<":", "p", "k">>]
              = MarshallValue(cmd.args.partitionKey[pk])
         /\ cmd.out.input["KeyConditionExpression"] =
              <<"#">> \o pk \o <<" ", "=", " ", ":", "p", "k">> \o
              (IF cmd.args.keyConfig.sk # <<>> /\ cmd.args.sortKey # NoCallback
               THEN <<" ", "A", "N", "D", " ">> \o
                    Invoke(NewBuilder, [cmd.args.sortKey.calls[1] EXCEPT
                                          !.attr = cmd.args.keyConfig.sk]).res.val
               ELSE <<>>)
  /\ cmd.op = "utils.buildKeyConditionExpression" =>
       /\ cmd.out.ExpressionAttributeNames[<<"#", "p", "k">>] = cmd.args.pkField
       /\ cmd.out.ExpressionAttributeValues[<<":", "p", "k">>] = cmd.args.pkValue
       /\ cmd.out.KeyConditionExpression =
            <<"#", "p", "k", " ", "=", " ", ":", "p", "k">> \o
            (IF cmd.args.skField # Undef /\ cmd.args.skCondition # Undef
             THEN <<" ", "A", "N", "D", " ">> \o cmd.args.skCondition
             ELSE <<>>)

\* a query on a table without a sort key, given a sort-key condition: the
\* partition-key equality alone
C15_Witness ==
  /\ cmd.op = "buildQueryCommand"
  /\ cmd.args.keyConfig.sk = <<>>
  /\ cmd.args.sortKey # NoCallback
  /\ cmd.out.res.kind = "ok"
  /\ cmd.out.input["KeyConditionExpression"] = <<"#", "a", " ", "=", " ", ":", "p", "k">>

----------------------------------------------------------------------------
(* Properties of the projection *)

\* the dotted name reference of a path: '#s1.#s2...'
NameRef(path) == Join([i \in 1..Len(Pieces(path)) |-> <<"#">> \o Pieces(path)[i]], <<".">>)

\* target carries the projection of the list, or none for no list or an empty one
Projects(target, projection) ==
  IF ~projection.defined \/ Len(projection.val) = 0
  THEN /\ ~Has(target, "ProjectionExpression")
       /\ ~Has(target, "ExpressionAttributeNames")
  ELSE /\ Has(target, "ProjectionExpression")
       /\ Has(target, "ExpressionAttributeNames")
       /\ target["ProjectionExpression"] =
            Join([i \in 1..Len(projection.val) |-> NameRef(projection.val[i])], <<",", " ">>)
       /\ DOMAIN target["ExpressionAttributeNames"] =
            UNION {{<<"#">> \o Pieces(projection.val[i])[j] : j \in 1..Len(Pieces(projection.val[i]))} :
                   i \in 1..Len(projection.val)}
       /\ \A k \in DOMAIN target["ExpressionAttributeNames"] :
            <<"#">> \o target["ExpressionAttributeNames"][k] = k

\* C16: a get or batchGet command carries a ProjectionExpression, and the
\* ExpressionAttributeNames for it, exactly when the projection list is
\* non-empty; it is then the ', '-join, in input order, of each path's dotted
\* name reference; an empty list gives no projection clause at all.
C16_ProjectionOnlyForNonEmptyList ==
  /\ cmd.op = "buildGetItemCommand" => Projects(cmd.out.input, cmd.args.projection)
  /\ cmd.op = "buildBatchGetItemCommand" =>
       Projects(cmd.out.input["RequestItems"][cmd.args.config.tableName], cmd.args.projection)

\* a batch get of <<a.b, a>>
C16_Witness ==
  /\ cmd.op = "buildBatchGetItemCommand"
  /\ cmd.args.projection = Some(<<<<"a", ".", "b">>, <<"a">>>>)
  /\ cmd.out.input["RequestItems"]["t"]["ProjectionExpression"] =
       <<"#", "a", ".", "#", "b", ",", " ", "#", "a">>

----------------------------------------------------------------------------
(* Properties of the update expression's text *)

\* the elements of s at the indices idx, in the order of s
SubAt(s, idx) ==
  [i \in 1..Cardinality(idx) |->
     s[CHOOSE j \in idx : Cardinality({k \in idx : k <= j}) = i]]

\* the entries of an updates map that are written, and the ones removed
SetEntries(updates) ==
  SubAt(updates, {j \in 1..Len(updates) : updates[j][2] \notin {Null, Undef}})
RemoveEntries(updates) ==
  SubAt(updates, {j \in 1..Len(updates) : updates[j][2] \in {Null, Undef}})

\* 'SET #k1 = :val0, #k2 = :val1 ...' for the entries written
SetText(sets) ==
  <<"S", "E", "T", " ">> \o
  Join([i \in 1..Len(sets) |-> NameRef(sets[i][1]) \o <<" ", "=", " ">> \o ValKey(i - 1)],
       <<",", " ">>)

\* 'REMOVE #k1, #k2 ...' for the entries removed
RemoveText(removes) ==
  <<"R", "E", "M", "O", "V", "E", " ">> \o
  Join([i \in 1..Len(removes) |-> NameRef(removes[i][1])], <<",", " ">>)

\* C17: the update expression is 'SET ' and the SET clauses joined by ', '
\* when there are any, then 'REMOVE ' and the REMOVE references joined by
\* ', ' when there are any, one space between the two parts, SET first, the
\* clauses of each part in the insertion order of the updates map.
C17_SetPartThenRemovePart ==
  (cmd.op = "buildUpdateExpression" /\ cmd.out.res.kind = "ok") =>
    \A sets \in {SetEntries(cmd.args.updates)}, removes \in {RemoveEntries(cmd.args.updates)} :
      cmd.out.res.val =
        (IF Len(sets) > 0 THEN SetText(sets) ELSE <<>>) \o
        (IF Len(sets) > 0 /\ Len(removes) > 0 THEN <<" ">> ELSE <<>>) \o
        (IF Len(removes) > 0 THEN RemoveText(removes) ELSE <<>>)

\* an attribute removed before another is written: 'SET #b = :val0 REMOVE #a'
C17_Witness ==
  /\ cmd.op = "buildUpdateExpression"
  /\ cmd.args.updates = <<<<<<"a">>, Null>>, <<<<"b">>, "x">>>>
  /\ cmd.out.res.val = <<"S", "E", "T", " ", "#", "b", " ", "=", " ", ":", "v", "a", "l", "0",
                         " ", "R", "E", "M", "O", "V", "E", " ", "#", "a">>

----------------------------------------------------------------------------
(* Properties of table.update *)

\* C18: table.update of src/table.ts handles null values as REMOVE
\* operations: for a non-empty updates map whose values are all null, a key
\* with its configured fields and a response carrying the item, it sends
\* exactly one UpdateItem request whose UpdateExpression is the REMOVE clause
\* naming those attributes, with the matching ExpressionAttributeNames, and
\* resolves with the returned item.
C18_NullUpdatesSentAsRemove ==
  (/\ cmd.op = "table.update"
   /\ Len(cmd.args.updates) > 0
   /\ \A i \in 1..Len(cmd.args.updates) : cmd.args.updates[i][2] = Null
   /\ Has(cmd.args.key, cmd.args.keyConfig.pk)
   /\ cmd.args.keyConfig.sk # <<>> => Has(cmd.args.key, cmd.args.keyConfig.sk)
   /\ cmd.args.attributes.defined) =>
    /\ cmd.out.res.kind = "ok"
    /\ Len(cmd.out.sent) = 1
    /\ cmd.out.sent[1]["UpdateExpression"] = RemoveText(cmd.args.updates)
    /\ cmd.out.sent[1]["ExpressionAttributeNames"] =
         [k \in {<<"#">> \o cmd.args.updates[i][1] : i \in 1..Len(cmd.args.updates)} |-> Tail(k)]
    /\ cmd.out.item = Some(unmarshall(cmd.args.attributes.val))

----------------------------------------------------------------------------
(* Properties of transactions *)

\* every request of the list compiles: no update of an empty updates map
Compiles(requests) ==
  \A i \in 1..Len(requests) :
    requests[i].type = "update" => Len(requests[i].updates) > 0

\* the TransactItem is the one of the request
ItemOf(transactItem, request, config) ==
  CASE request.type = "put" ->
         /\ DOMAIN transactItem = {"Put"}
         /\ transactItem["Put"]["TableName"] = config.tableName
         /\ transactItem["Put"]["Item"] =
              [k \in DOMAIN request.item |-> MarshallValue(request.item[k])]
         /\ Has(transactItem["Put"], "ConditionExpression") <=> request.condition # NoCallback
    [] request.type = "update" ->
         /\ DOMAIN transactItem = {"Update"}
         /\ transactItem["Update"]["TableName"] = config.tableName
         /\ transactItem["Update"]["Key"][config.key.pk] = MarshallValue(request.key[config.key.pk])
         /\ transactItem["Update"]["UpdateExpression"] # <<>>
    [] request.type = "delete" ->
         /\ DOMAIN transactItem = {"Delete"}
         /\ transactItem["Delete"]["TableName"] = config.tableName
         /\ transactItem["Delete"]["Key"][config.key.pk] = MarshallValue(request.key[config.key.pk])
         /\ Has(transactItem["Delete"], "ConditionExpression") <=> request.condition # NoCallback

----------------------------------------------------------------------------
(* Runs of paginate: one call, then the pages the consumer pulls *)

\* the table paginated: partition key a, sort key b
PaginateCtx ==
  [tableName |-> "t",
   keyConfig |-> [pk |-> <<"a">>, sk |-> <<"b">>, pkText |-> "a", skText |-> "b"]]

\* options of a query (pk given) or a scan, with or without a start key
PaginateOptions ==
  {[pk |-> pk, skCondition |-> Undef, exclusiveStartKey |-> esk] :
     pk \in {None, Some(<<"p", "1">>)}, esk \in {None, Some((<<"a">> :> "k0"))}}

\* responses of the store: Items missing or one item, LastEvaluatedKey
\* missing or a key
PageResponses ==
  {[Items |-> items, LastEvaluatedKey |-> lek] :
     items \in {None, Some(<<marshall((<<"a">> :> "k1"))>>), Some(<<marshall((<<"a">> :> "k2"))>>)},
     lek \in {None, Some(marshall((<<"a">> :> "k1")))}}

PaginateCall ==
  /\ pager.pc = "idle"
  /\ \E options \in PaginateOptions, onPage \in BOOLEAN,
        maxPages \in {NoMaxPages} \cup {Some(n) : n \in 0..MaxPages} :
       pager' = paginateCalled(options, maxPages, onPage)
  /\ UNCHANGED <<builder, call, result, bound, cmd, pool>>

\* the store answers the request; it holds MaxSends pages at most
PaginateFetch ==
  /\ pager.pc = "loop"
  /\ WithinMaxPages(pager)
  /\ Len(pager.sent) < MaxSends
  /\ \E response \in PageResponses :
       /\ response.LastEvaluatedKey.defined => Len(pager.sent) + 1 < MaxSends
       /\ pager' = paginateFetched(pager, PaginateCtx, response)
  /\ UNCHANGED <<builder, call, result, bound, cmd, pool>>

PaginateYield ==
  /\ pager.pc = "yield"
  /\ pager' = paginateYielded(pager)
  /\ UNCHANGED <<builder, call, result, bound, cmd, pool>>

\* the while loop ends: page has reached maxPages
PaginateReturn ==
  /\ pager.pc = "loop"
  /\ ~WithinMaxPages(pager)
  /\ pager' = [pager EXCEPT !.pc = "done"]
  /\ UNCHANGED <<builder, call, result, bound, cmd, pool>>

NextPaginate ==
  \/ PaginateCall
  \/ PaginateFetch
  \/ PaginateYield
  \/ PaginateReturn

\* the consumer iterates the generator to its end and every awaited send is
\* answered, so a step that can be taken is taken
SpecPaginate == InitBuilder /\ [][NextPaginate]_vars /\ WF_vars(NextPaginate)

\* the items of a response: its Items, or none when it has no Items
ItemsOf(response) == IF response.Items.defined THEN response.Items.val ELSE <<>>

\* what holds of the requests sent and the pages yielded at any moment
PagesFollowResponses ==
  /\ Len(pager.received) = Len(pager.sent)
  /\ pager.maxPages.defined =>
       /\ Len(pager.sent) <= pager.maxPages.val
       /\ Len(pager.yielded) <= pager.maxPages.val
  /\ Len(pager.yielded) = Len(pager.sent) - (IF pager.pc = "yield" THEN 1 ELSE 0)
  /\ \A i \in 1..Len(pager.yielded) : pager.yielded[i] = ItemsOf(pager.received[i])
  /\ \A i \in 1..(Len(pager.received) - 1) : pager.received[i].LastEvaluatedKey.defined
  /\ \A i \in 2..Len(pager.sent) :
       pager.sent[i]["ExclusiveStartKey"] =
         [k \in DOMAIN pager.received[i - 1].LastEvaluatedKey.val |->
            MarshallValue(pager.received[i - 1].LastEvaluatedKey.val[k])]
  /\ (/\ Len(pager.yielded) > 0
      /\ Len(pager.yielded) = Len(pager.received)
      /\ ~pager.received[Len(pager.received)].LastEvaluatedKey.defined) => pager.pc = "done"
  /\ pager.pc = "done" =>
       \/ /\ Len(pager.received) > 0
          /\ ~pager.received[Len(pager.received)].LastEvaluatedKey.defined
       \/ /\ pager.maxPages.defined
          /\ Len(pager.sent) = pager.maxPages.val

\* C20: paginate(options, { maxPages }) sends at most maxPages requests and
\* yields at most maxPages pages, one page per request in the order of the
\* responses, and ends right after the first page whose response has no
\* LastEvaluatedKey even when maxPages has not been reached; with no maxPages
\* it ends as soon as the store returns a response without LastEvaluatedKey.
C20_PaginateEndsAtLastPageOrMaxPages ==
  /\ []PagesFollowResponses
  /\ (pager.pc = "loop") ~> (pager.pc = "done")

\* no maxPages: three pages fetched and yielded, the third the last
C20_Witness ==
  /\ pager.pc = "done"
  /\ ~pager.maxPages.defined
  /\ Len(pager.sent) = 3
  /\ Len(pager.yielded) = 3
  /\ ~pager.received[3].LastEvaluatedKey.defined

----------------------------------------------------------------------------
(* paginate of the single-schema table: an async generator over scans.  It  *)
(* runs on pager as paginate of table.ts does: exclusiveStartKey is its      *)
(* local variable, result the page made of the last response.                *)

\* an optional number: a limit that is given, or left out
NoLimit == [defined |-> FALSE, val |-> 0]

\* a page token: the base64 text of the JSON text of a key, or a text that
\* is not one
Token(key, wellFormed) == [base64 |-> [json |-> key], wellFormed |-> wellFormed]

\* the exclusiveStartKey option: left out, a key object, or a string
\* (key holds the object and token the string; the other one is unused)
NoStartKey == [type |-> "undefined", key |-> EmptyMap, token |-> Token(EmptyMap, FALSE)]
StartKeyObject(key) == [type |-> "object", key |-> key, token |-> Token(EmptyMap, FALSE)]
StartKeyString(token) == [type |-> "string", key |-> EmptyMap, token |-> token]

\* parseExclusiveStartKey(exclusiveStartKey): the key, or the error thrown
parseExclusiveStartKey(exclusiveStartKey) ==
  CASE exclusiveStartKey.type = "undefined" -> [res |-> Ok(<<>>), key |-> None]
    [] exclusiveStartKey.type = "string" ->
         IF exclusiveStartKey.token.wellFormed
         THEN [res |-> Ok(<<>>), key |-> Some(exclusiveStartKey.token.base64.json)]
         ELSE [res |-> Throw("Error: Invalid exclusiveStartKey: must be a valid base64-encoded JSON string"),
               key |-> None]
    [] exclusiveStartKey.type = "object" -> [res |-> Ok(<<>>), key |-> Some(exclusiveStartKey.key)]

\* encodeExclusiveStartKey(key)
encodeExclusiveStartKey(key) == IF ~key.defined THEN None ELSE Some(Token(key.val, TRUE))

\* applyQueryOptions(options, commandInput) for the options of a scan: limit
\* and exclusiveStartKey, the latter a key object or undefined
applyPageOptions(options, commandInput) ==
  (IF options.limit.defined /\ options.limit.val # 0
   THEN ("Limit" :> options.limit.val) ELSE EmptyMap) @@
  (IF options.exclusiveStartKey.defined
   THEN ("ExclusiveStartKey" :> options.exclusiveStartKey.val) ELSE EmptyMap) @@
  commandInput

\* applyFilterExpression(filter, commandInput)
applyFilterExpression(filter, commandInput) ==
  SetExpression(RunCallback(filter, NewBuilder), "FilterExpression", commandInput)

\* buildScanCommand(options, config): the input of the ScanCommand
buildScanCommand(options, config) ==
  applyPageOptions(options,
                   IF Given(options.filter)
                   THEN applyFilterExpression(options.filter,
                                              ("TableName" :> config.tableName)).input
                   ELSE ("TableName" :> config.tableName))

\* toPaginateResult(response)
toPaginateResult(response) ==
  [data |-> IF response.Items.defined
            THEN [i \in 1..Len(response.Items.val) |-> unmarshall(response.Items.val[i])]
            ELSE <<>>,
   hasNextPage |-> response.LastEvaluatedKey.defined,
   nextPageToken |-> IF response.LastEvaluatedKey.defined
                     THEN encodeExclusiveStartKey(response.LastEvaluatedKey) ELSE None]

\* paginate(options, paginateOptions) up to the while loop: the start key
\* parsed and the page limit chosen, or the error of the parse thrown
scanPagesCalled(options, paginateOptions) ==
  IF parseExclusiveStartKey(options.exclusiveStartKey).res.kind = "throw"
  THEN [NoPager EXCEPT !.pc = "thrown", !.options = options]
  ELSE [NoPager EXCEPT
          !.pc = "loop",
          !.options = [options EXCEPT !.limit = IF paginateOptions.limit.defined
                                                THEN paginateOptions.limit ELSE @],
          !.exclusiveStartKey = parseExclusiveStartKey(options.exclusiveStartKey).key]

\* const command = buildScanCommand(scanOptions, config); const response =
\* await client.send(command); const result = toPaginateResult(response)
scanPageFetched(p, config, response) ==
  [p EXCEPT !.pc = "yield",
            !.sent = Append(@, ("command" :> "Scan") @@
                               buildScanCommand([filter |-> p.options.filter,
                                                 limit |-> p.options.limit,
                                                 exclusiveStartKey |-> p.exclusiveStartKey],
                                                config)),
            !.received = Append(@, response),
            !.result = toPaginateResult(response)]

\* the start key never moved on from the one of the call
scanPageYieldedSameStart(p) ==
  [p EXCEPT !.yielded = Append(@, p.result),
            !.pc = IF ~p.result.hasNextPage THEN "done" ELSE "loop"]

\* yield result; if (!result.hasNextPage) break;
\* exclusiveStartKey = response.LastEvaluatedKey
scanPageYielded(p) ==
  [p EXCEPT !.yielded = Append(@, p.result),
            !.pc = IF ~p.result.hasNextPage THEN "done" ELSE "loop",
            !.exclusiveStartKey = IF ~p.result.hasNextPage THEN @
                                  ELSE p.received[Len(p.received)].LastEvaluatedKey]

----------------------------------------------------------------------------
(* Runs of the single-schema paginate *)

\* options of the call: a filter or none, a limit or none, and a start key
\* left out, given as a key, as a token, or as a text that is no token
ScanPagesOptions ==
  {[filter |-> filter, limit |-> limit, exclusiveStartKey |-> esk] :
     filter \in {NoCallback, Callback(<<Call("eq", <<"a">>, <<"y">>, <<>>)>>, "single")},
     limit \in {NoLimit, [defined |-> TRUE, val |-> 10]},
     esk \in {NoStartKey,
              StartKeyObject(marshall((<<"a">> :> "k0"))),
              StartKeyString(Token(marshall((<<"a">> :> "k0")), TRUE)),
              StartKeyString(Token(EmptyMap, FALSE))}}

\* responses of the store: Items missing or one item, LastEvaluatedKey
\* missing or one of two keys
ScanResponses ==
  {[Items |-> items, LastEvaluatedKey |-> lek] :
     items \in {None, Some(<<marshall((<<"a">> :> "k1"))>>)},
     lek \in {None, Some(marshall((<<"a">> :> "k1"))), Some(marshall((<<"a">> :> "k2")))}}

ScanPagesCall ==
  /\ pager.pc = "idle"
  /\ \E options \in ScanPagesOptions,
        limit \in {NoLimit, [defined |-> TRUE, val |-> 0], [defined |-> TRUE, val |-> 5]} :
       pager' = scanPagesCalled(options, [limit |-> limit])
  /\ UNCHANGED <<builder, call, result, bound, cmd, pool>>

\* the store answers the scan; it holds MaxSends pages at most
ScanPagesFetch ==
  /\ pager.pc = "loop"
  /\ Len(pager.sent) < MaxSends
  /\ \E response \in ScanResponses :
       /\ response.LastEvaluatedKey.defined => Len(pager.sent) + 1 < MaxSends
       /\ pager' = scanPageFetched(pager, [tableName |-> "t"], response)
  /\ UNCHANGED <<builder, call, result, bound, cmd, pool>>

ScanPagesYield ==
  /\ pager.pc = "yield"
  /\ pager' = scanPageYielded(pager)
  /\ UNCHANGED <<builder, call, result, bound, cmd, pool>>

NextScanPages ==
  \/ ScanPagesCall
  \/ ScanPagesFetch
  \/ ScanPagesYield

SpecScanPages == InitBuilder /\ [][NextScanPages]_vars

----------------------------------------------------------------------------
(* Key validation of the operations of table.ts *)

\* the operations of table.ts that take a key
KeyedOps == {"table.get", "table.put", "table.update", "table.remove"}

\* the key input has no usable value for the field
Lacks(input, field) == ~Has(input, field) \/ input[field] \in {Undef, Null}

\* C22: in table.ts no request is sent for a get, put, update or delete whose
\* key input lacks the partition-key field, or lacks the sort-key field when
\* one is configured (missing, undefined or null): the call rejects first,
\* put/get/delete with 'Missing required partition key field: <pk>' or
\* 'Missing required sort key field: <sk>'.
C22_NoRequestWithoutKeyFields ==
  cmd.op \in KeyedOps =>
    \A keyConfig \in {cmd.args.keyConfig} :
      /\ Lacks(cmd.args.key, keyConfig.pk) =>
           /\ cmd.out.sent = <<>>
           /\ cmd.out.res.kind = "throw"
           /\ cmd.op # "table.update" =>
                cmd.out.res =
                  Throw("Error: Missing required partition key field: " \o keyConfig.pkText)
      /\ (/\ ~Lacks(cmd.args.key, keyConfig.pk)
          /\ keyConfig.sk # <<>>
          /\ Lacks(cmd.args.key, keyConfig.sk)) =>
           /\ cmd.out.sent = <<>>
           /\ cmd.out.res.kind = "throw"
           /\ cmd.op # "table.update" =>
                cmd.out.res =
                  Throw("Error: Missing required sort key field: " \o keyConfig.skText)

\* remove has been called with a key whose sort key field is null on a table
\* with a sort key, and has rejected without a request
C22_Witness ==
  /\ cmd.op = "table.remove"
  /\ cmd.args.keyConfig.sk = <<"b">>
  /\ cmd.args.key = (<<"a">> :> "k1") @@ (<<"b">> :> Null)
  /\ cmd.out.res = Throw("Error: Missing required sort key field: b")
  /\ cmd.out.sent = <<>>

----------------------------------------------------------------------------
(* The update compiler on a builder's registry *)

\* C23: the value placeholders buildUpdateExpression allocates on a builder
\* are distinct from every placeholder already allocated on that builder (no
\* existing values entry is overwritten), and an operator call made on the
\* same builder afterwards never reuses a placeholder the update compiler
\* allocated.
C23_UpdateCompilerSharesRegistry ==
  cmd.op = "buildUpdateExpression" =>
    \A before \in {cmd.args.b}, after \in {cmd.out.b} :
      /\ \A k \in DOMAIN before.values :
           /\ Has(after.values, k)
           /\ after.values[k] = before.values[k]
      /\ Size(after.values) = Size(before.values) + Len(cmd.out.setExpressions)
      /\ \A later \in {compare(after, <<"=">>, <<"b">>, "y").b} :
           /\ Size(later.values) = Size(after.values) + 1
           /\ \A k \in DOMAIN after.values : later.values[k] = after.values[k]

----------------------------------------------------------------------------
(* The compilers and the builder on one path *)

\* C24: the update compiler and the projection compiler tokenize as the
\* Expression Builder does: for every attribute path, including paths with
\* empty or whitespace-padded segments such as '', 'a..b' or ' a.b', they
\* produce the same dotted name reference and the same name-map entries as a
\* builder operator does for that path.
C24_CompilersTokenizeAsBuilder ==
  cmd.op = "compilePath" =>
    /\ cmd.out.projection.ret = cmd.out.operator.ret
    /\ cmd.out.projection.b.names = cmd.out.operator.b.names
    /\ cmd.out.update.setExpressions = <<cmd.out.operator.ret \o StrEq \o ValKey(0)>>
    /\ cmd.out.update.b.names = cmd.out.operator.b.names

----------------------------------------------------------------------------
(* Commands built one after another *)

\* most operations started in a run
MaxOps == 2

\* the builder createExpressionBuilder has just made, as its methods see it
Made(p) == Closure(p, p.made[Len(p.made)])

\* the builders after the one last made has been left as b
Used(p, b) == Stored(p, p.made[Len(p.made)], b)

\* the builders after the callback has run on the builder made last, and what
\* it returned
Landed(p1, c) == [heap |-> Used(p1, c.b), c |-> c]

\* the callback run on the builder made last by an earlier step, when there
\* is one, instead of on a builder of its own
RunOnRetainedBuilder(p, callback) ==
  IF Len(p.made) = 0
  THEN Landed(createExpressionBuilder(p),
              RunCallback(callback, Made(createExpressionBuilder(p))))
  ELSE Landed(p, RunCallback(callback, Made(p)))

\* const builder = createExpressionBuilder(); condition(builder): the
\* builders afterwards and what the callback returned
RunOnNewBuilder(p, callback) ==
  Landed(createExpressionBuilder(p), RunCallback(callback, Made(createExpressionBuilder(p))))

\* the command once the condition, run as r, has been merged into it
UpdateMergedIn(u, r, unconditioned) ==
  [heap |-> r.heap,
   out |-> ConditionedCommand(u.b, MergeExpression(r.c, "ConditionExpression",
                                                   unconditioned.input))]

\* the command of the compiled update u; p2 are the builders after it
UpdateBuiltIn(p2, u, unconditioned, options) ==
  IF u.res.kind = "throw" THEN [heap |-> p2, out |-> Failed(u.res)]
  ELSE IF Given(options.condition)
  THEN UpdateMergedIn(u, RunOnNewBuilder(p2, options.condition), unconditioned)
  ELSE [heap |-> p2, out |-> unconditioned]

\* the update compiled on the builder made last in p1
UpdateCompiledIn(p1, u, key, options, config) ==
  UpdateBuiltIn(Used(p1, u.b), u,
                UpdateItemCommandInput(buildKey(key, config.key), u,
                                       [condition |-> NoCallback], config),
                options)

\* buildUpdateItemCommand(key, updates, options, config) among the builders
\* p made so far: the builders afterwards and the command
buildUpdateItemCommandIn(p, key, updates, options, config) ==
  UpdateCompiledIn(createExpressionBuilder(p),
                   buildUpdateExpression(updates, Made(createExpressionBuilder(p))),
                   key, options, config)

\* the item once the condition, run as r, has been set on target
TransactSetIn(kind, request, target, r) ==
  [heap |-> r.heap,
   item |-> Conditioned(kind, request, target,
                        SetExpression(r.c, "ConditionExpression", target))]

\* the item of a put or delete request among the builders p
TransactPlainIn(p, kind, request, target) ==
  IF Given(request.condition)
  THEN TransactSetIn(kind, request, target, RunOnNewBuilder(p, request.condition))
  ELSE [heap |-> p, item |-> Conditioned(kind, request, target, target)]

\* the Update item once the condition, run as r, has been merged into target
TransactMergedIn(request, target, r) ==
  [heap |-> r.heap,
   item |-> Conditioned("Update", request, target,
                        MergeExpression(r.c, "ConditionExpression", target))]

\* the Update item of the compiled update u; p2 are the builders after it
TransactUpdateBuiltIn(p2, request, u, target) ==
  IF u.res.kind = "throw" THEN [heap |-> p2, item |-> [res |-> u.res, item |-> EmptyMap]]
  ELSE IF Given(request.condition)
  THEN TransactMergedIn(request, target, RunOnNewBuilder(p2, request.condition))
  ELSE [heap |-> p2, item |-> Conditioned("Update", request, target, target)]

\* the update of the request compiled on the builder made last in p1
TransactUpdateCompiledIn(p1, request, u, config) ==
  TransactUpdateBuiltIn(Used(p1, u.b), request, u,
                        IF u.res.kind = "throw" THEN EmptyMap
                        ELSE TransactUpdate(request, u, config))

\* the item of an update request among the builders p
TransactUpdateIn(p, request, config) ==
  TransactUpdateCompiledIn(createExpressionBuilder(p), request,
                           buildUpdateExpression(request.updates,
                                                 Made(createExpressionBuilder(p))),
                           config)

\* one turn of the loop of buildTransactWriteItemsCommand among the builders p
TransactItemIn(p, request, config) ==
  CASE request.type = "put" ->
         TransactPlainIn(p, "Put", request,
                         ("TableName" :> config.tableName) @@
                         ("Item" :> marshall(request.item)))
    [] request.type = "update" -> TransactUpdateIn(p, request, config)
    [] request.type = "delete" ->
         TransactPlainIn(p, "Delete", request,
                         ("TableName" :> config.tableName) @@
                         ("Key" :> buildKey(request.key, config.key)))

RECURSIVE TransactItemsIn(_, _, _, _)
RECURSIVE TransactItemsAfter(_, _, _, _)
\* the loop once the turn for the first request has left t
TransactItemsAfter(t, requests, config, transactItems) ==
  IF t.item.res.kind = "throw"
  THEN [heap |-> t.heap, r |-> [res |-> t.item.res, items |-> transactItems]]
  ELSE TransactItemsIn(t.heap, Tail(requests), config, Append(transactItems, t.item.item))

\* the loop over the requests among the builders p
TransactItemsIn(p, requests, config, transactItems) ==
  IF Len(requests) = 0 THEN [heap |-> p, r |-> [res |-> Ok(<<>>), items |-> transactItems]]
  ELSE TransactItemsAfter(TransactItemIn(p, requests[1], config), requests, config,
                          transactItems)

\* the command of the items the loop has left among the builders
TransactCommandIn(t) == [heap |-> t.heap, out |-> TransactCommand(t.r)]

\* buildTransactWriteItemsCommand(requests, config) among the builders p
buildTransactWriteItemsCommandIn(p, requests, config) ==
  IF Len(requests) > MaxTransactItems
  THEN [heap |-> p,
        out |-> Failed(Throw("Error: TransactWriteItems supports a maximum of 25 items per transaction"))]
  ELSE TransactCommandIn(TransactItemsIn(p, requests, config, <<>>))

\* the table of the operations
OpsConfig ==
  [tableName |-> "t", key |-> [pk |-> <<"a">>, sk |-> <<"b">>, pkText |-> "a", skText |-> "b"],
   indexes |-> Indexes]

\* update(key, updates, options) calls: { c: 'x' } and { a: 'x', b: null },
\* unconditioned, under eq('a', 'y'), under eq('a', 'y') and eq('b', 'x')
UpdateOps ==
  {[type |-> "update", key |-> (<<"a">> :> "k1") @@ (<<"b">> :> "k2"),
    updates |-> u, condition |-> c, requests |-> <<>>] :
     u \in {<< <<(<<"c">>), "x">> >>, << <<(<<"a">>), "x">>, <<(<<"b">>), Null>> >>},
     c \in {NoCallback,
            Callback(<<Call("eq", <<"a">>, <<"y">>, <<>>)>>, "single"),
            Callback(<<Call("eq", <<"a">>, <<"y">>, <<>>),
                       Call("eq", <<"b">>, <<"x">>, <<>>)>>, "and")}}

\* transaction(requests) calls: a conditional put with an update, two
\* conditional puts, a conditional delete with a conditional put, an update
\* of nothing
TransactionOps ==
  {[type |-> "transaction", key |-> EmptyMap, updates |-> <<>>, condition |-> NoCallback,
    requests |-> r] :
     r \in {<<Request("put", (<<"a">> :> "k2"), EmptyMap, <<>>,
                      Callback(<<Call("eq", <<"a">>, <<"y">>, <<>>)>>, "single")),
              Request("update", EmptyMap, (<<"a">> :> "k1") @@ (<<"b">> :> "k2"),
                      <<<<<<"c">>, "x">>>>,
                      Callback(<<Call("eq", <<"b">>, <<"x">>, <<>>)>>, "single"))>>,
            <<Request("put", (<<"a">> :> "k2"), EmptyMap, <<>>,
                      Callback(<<Call("eq", <<"a">>, <<"y">>, <<>>)>>, "single")),
              Request("put", (<<"a">> :> "k1"), EmptyMap, <<>>,
                      Callback(<<Call("eq", <<"b">>, <<"x">>, <<>>)>>, "single"))>>,
            <<Request("delete", EmptyMap, (<<"a">> :> "k1") @@ (<<"b">> :> "k2"), <<>>,
                      Callback(<<Call("exists", <<"b">>, <<>>, <<>>)>>, "single")),
              Request("put", (<<"a">> :> "k2"), EmptyMap, <<>>,
                      Callback(<<Call("eq", <<"a">>, <<"y">>, <<>>)>>, "single"))>>,
            <<Request("update", EmptyMap, (<<"a">> :> "k1") @@ (<<"b">> :> "k2"), <<>>,
                      NoCallback)>>}}

\* an operation that has built its command and awaits client.send, or has
\* thrown while building
Started(built) ==
  [command |-> built.out, pending |-> built.out.res.kind = "ok"]

\* update(key, updates, options): the command is built, then the send awaited
UpdateOp ==
  /\ Len(cmd.args) < MaxOps
  /\ \E o \in UpdateOps :
       \E built \in {buildUpdateItemCommandIn(pool, o.key, o.updates,
                                              [condition |-> o.condition], OpsConfig)} :
         /\ pool' = built.heap
         /\ cmd' = [op |-> "ops", args |-> Append(cmd.args, o),
                    out |-> Append(cmd.out, Started(built))]
  /\ UNCHANGED <<builder, call, result, bound, pager>>

\* transaction(requests): the command is built, then the send awaited
TransactionOp ==
  /\ Len(cmd.args) < MaxOps
  /\ \E o \in TransactionOps :
       \E built \in {buildTransactWriteItemsCommandIn(pool, o.requests, OpsConfig)} :
         /\ pool' = built.heap
         /\ cmd' = [op |-> "ops", args |-> Append(cmd.args, o),
                    out |-> Append(cmd.out, Started(built))]
  /\ UNCHANGED <<builder, call, result, bound, pager>>

\* the client answers one of the sends awaited, in any order
ClientAnswers ==
  /\ \E i \in 1..Len(cmd.out) :
       /\ cmd.out[i].pending
       /\ cmd' = [cmd EXCEPT !.out[i].pending = FALSE]
  /\ UNCHANGED <<builder, call, result, bound, pool, pager>>

NextOps ==
  \/ UpdateOp
  \/ TransactionOp
  \/ ClientAnswers

SpecOps == InitBuilder /\ [][NextOps]_vars

\* the command of an operation as a call on its own builds it
BuiltAlone(o) ==
  IF o.type = "update"
  THEN buildUpdateItemCommand(o.key, o.updates, [condition |-> o.condition], OpsConfig)
  ELSE buildTransactWriteItemsCommand(o.requests, OpsConfig)

\* C25: every build*Command call constructs its expression builders inside
\* the call and never retains them: the command an operation builds is the
\* one its arguments give on their own, whatever commands were built before
\* it and whichever sends are still awaited, and each item of a transaction
\* is the item its own request gives, with its own ExpressionAttributeNames
\* and ExpressionAttributeValues.
C25_CommandsDependOnOwnArguments ==
  \A i \in 1..Len(cmd.args) :
    /\ cmd.out[i].command = BuiltAlone(cmd.args[i])
    /\ (cmd.args[i].type = "transaction" /\ cmd.out[i].command.res.kind = "ok") =>
         \A j \in 1..Len(cmd.args[i].requests) :
           cmd.out[i].command.input["TransactItems"][j] =
             TransactItem(cmd.args[i].requests[j], OpsConfig).item

\* a transaction of two conditional puts was built while the send of a
\* conditional update was awaited: both puts bind :val0, each its own value
C25_Witness ==
  /\ Len(cmd.args) = 2
  /\ cmd.args[1].type = "update"
  /\ Given(cmd.args[1].condition)
  /\ cmd.out[1].pending
  /\ cmd.args[2].type = "transaction"
  /\ cmd.out[2].command.res.kind = "ok"
  /\ \A items \in {cmd.out[2].command.input["TransactItems"]} :
       /\ Len(items) = 2
       /\ DOMAIN items[1] = {"Put"}
       /\ DOMAIN items[2] = {"Put"}
       /\ items[1]["Put"]["ExpressionAttributeValues"] = marshall((ValKey(0) :> "y"))
       /\ items[2]["Put"]["ExpressionAttributeValues"] = marshall((ValKey(0) :> "x"))

----------------------------------------------------------------------------
(* mergeAndNormalize of utils.ts *)

\* the keys of the defined parts
MergedKeys(parts) == UNION {DOMAIN parts[i].val : i \in {j \in 1..Len(parts) : parts[j].defined}}

\* the last defined part that holds the key
LastWith(parts, k) ==
  CHOOSE i \in 1..Len(parts) :
    /\ parts[i].defined /\ Has(parts[i].val, k)
    /\ \A j \in (i + 1)..Len(parts) : ~(parts[j].defined /\ Has(parts[j].val, k))

\* C26: mergeAndNormalize returns the left-to-right merge of its defined
\* arguments, later keys overriding earlier ones, when that merge has at
\* least one key, and returns undefined when the merged result is empty (as
\* for mergeAndNormalize({}, undefined) or mergeAndNormalize(undefined,
\* undefined)).
C26_MergeOrUndefined ==
  cmd.op = "mergeAndNormalize" =>
    \A parts \in {cmd.args.parts} :
      /\ cmd.out.res.kind = "ok"
      /\ IF MergedKeys(parts) = {}
         THEN cmd.out.out = None
         ELSE cmd.out.out =
                Some([k \in MergedKeys(parts) |-> parts[LastWith(parts, k)].val[k]])

----------------------------------------------------------------------------
(* sortBatchResults of utils.ts *)

\* the item has the key's values in the configured key fields
SameKey(key, item, keyConfig) ==
  /\ item[keyConfig.pk] = key[keyConfig.pk]
  /\ item[keyConfig.sk] = key[keyConfig.sk]

\* the items stored under the key, one at most
ItemsUnder(key, items, keyConfig) == SelectSeq(items, LAMBDA item : SameKey(key, item, keyConfig))

\* C27: sortBatchResults(keys, items, keyConfig) returns, in the order of the
\* input keys, exactly the items whose partition-key and sort-key values
\* equal those of some input key: a key with no matching item contributes
\* nothing, and an item is matched only to a key with identical pk and sk
\* values, so two different keys never select the same item.
C27_ItemsInKeyOrder ==
  cmd.op = "sortBatchResults" =>
    cmd.out = Flatten([i \in 1..Len(cmd.args.keys) |->
                         ItemsUnder(cmd.args.keys[i], cmd.args.items, cmd.args.keyConfig)])

----------------------------------------------------------------------------
(* The start key of table.ts paginate *)

\* C28: in paginate of table.ts the ExclusiveStartKey sent with every request
\* after the first denotes the same key, in the same wire encoding, as the
\* LastEvaluatedKey returned by the previous response: the key passes through
\* toPagedResult's encodePageKey, decodePageKey and the marshall applied by
\* query/scan unchanged.
C28_StartKeyIsLastEvaluatedKey ==
  \A i \in 2..Len(pager.sent) :
    pager.sent[i]["ExclusiveStartKey"] = pager.received[i - 1].LastEvaluatedKey.val

----------------------------------------------------------------------------
(* batchGet of the single-schema table.  It runs on pager: keys and options *)
(* are its arguments, page is the loop variable i, yielded is allItems,     *)
(* result is what it returned.                                               *)

\* const batchSize = 100
batchSize == 100

\* most keys of a call
MaxBatchKeys == 201

\* toBatchGetResult(response, tableName).items
toBatchGetResult(response, tableName) ==
  IF response.Responses.defined /\ Has(response.Responses.val, tableName)
  THEN [j \in 1..Len(response.Responses.val[tableName]) |->
          unmarshall(response.Responses.val[tableName][j])]
  ELSE <<>>

\* keys.slice(i, i + batchSize) and the key after it
BatchWithNext(keys, i) ==
  SubSeq(keys, i + 1, IF i + batchSize + 1 < Len(keys) THEN i + batchSize + 1 ELSE Len(keys))

\* keys.slice(i, i + batchSize)
Batch(keys, i) ==
  SubSeq(keys, i + 1, IF i + batchSize < Len(keys) THEN i + batchSize ELSE Len(keys))

\* batchGet(keys, options) up to the first test of the loop
batchGetCalled(keys, options) ==
  IF Len(keys) = 0
  THEN [NoPager EXCEPT !.pc = "done", !.options = [keys |-> keys, options |-> options],
                       !.result = ("items" :> <<>>)]
  ELSE [NoPager EXCEPT !.pc = "loop", !.options = [keys |-> keys, options |-> options]]

\* the command of the batch at i goes to the client
batchGetSent(p, config) ==
  [p EXCEPT !.pc = "await",
            !.sent = Append(@, buildBatchGetItemCommand(Batch(p.options.keys, p.page),
                                                        p.options.options, config).input)]

\* the client has answered: the items are pushed, i moves on by batchSize and
\* the loop is tested
batchGetAnswered(p, config, response) ==
  LET allItems == p.yielded \o toBatchGetResult(response, config.tableName)
      i == p.page + batchSize
  IN IF i < Len(p.options.keys)
     THEN [p EXCEPT !.pc = "loop", !.received = Append(@, response),
                    !.yielded = allItems, !.page = i]
     ELSE [p EXCEPT !.pc = "done", !.received = Append(@, response),
                    !.yielded = allItems, !.page = i, !.result = ("items" :> allItems)]

----------------------------------------------------------------------------
(* Runs of batchGet *)

\* the table of the batches: partition key a, no sort key
BatchConfig ==
  [tableName |-> "t", key |-> [pk |-> <<"a">>, sk |-> <<>>, pkText |-> "a", skText |-> ""],
   indexes |-> Indexes]

\* n keys, each its own
BatchKeyList(n) == [i \in 1..n |-> (<<"a">> :> Decimal(i))]

\* the numbers of keys tried: around every multiple of batchSize
BatchLengths ==
  {n \in 0..MaxBatchKeys :
     \/ n % batchSize \in {0, 1, batchSize - 1}
     \/ n = MaxBatchKeys}

\* what the store answers for a batch: no Responses, Responses of another
\* table, the items of all the keys in reverse order, the first key's item
BatchResponses(batch) ==
  {[Responses |-> None],
   [Responses |-> Some(("u" :> <<>>))],
   [Responses |-> Some(("t" :> [j \in 1..Len(batch) |-> batch[Len(batch) + 1 - j]]))],
   [Responses |-> Some(("t" :> <<batch[1]>>))]}

BatchGetCall ==
  /\ pager.pc = "idle"
  /\ \E n \in BatchLengths, consistentRead \in {Undef, "true"} :
       pager' = batchGetCalled(BatchKeyList(n),
                               [projection |-> None, consistentRead |-> consistentRead])
  /\ UNCHANGED <<builder, call, result, bound, cmd, pool>>

BatchGetSend ==
  /\ pager.pc = "loop"
  /\ pager' = batchGetSent(pager, BatchConfig)
  /\ UNCHANGED <<builder, call, result, bound, cmd, pool>>

BatchGetAnswer ==
  /\ pager.pc = "await"
  /\ \E response \in BatchResponses(
                        pager.sent[Len(pager.sent)]["RequestItems"]["t"]["Keys"]) :
       pager' = batchGetAnswered(pager, BatchConfig, response)
  /\ UNCHANGED <<builder, call, result, bound, cmd, pool>>

NextBatchGet ==
  \/ BatchGetCall
  \/ BatchGetSend
  \/ BatchGetAnswer

SpecBatchGet == InitBuilder /\ [][NextBatchGet]_vars

\* the keys of the k-th request sent
KeysSent(k) == pager.sent[k]["RequestItems"]["t"]["Keys"]

\* C29: batchGet splits the key list into consecutive batches of at most 100
\* keys, sends exactly ceil(n/100) BatchGetItem requests one after another
\* in input order with every input key in exactly one batch, returns the
\* concatenation of the batches' items in request order, and sends no
\* request at all for an empty key list.
C29_BatchesOfAtMostHundred ==
  pager.pc # "idle" =>
    \A keys \in {pager.options.keys} :
      /\ Len(pager.sent) <= (Len(keys) + 99) \div 100
      /\ Len(pager.sent) - Len(pager.received) = (IF pager.pc = "await" THEN 1 ELSE 0)
      /\ \A k \in 1..Len(pager.sent) :
           /\ Len(KeysSent(k)) = (IF Len(keys) < 100 * k THEN Len(keys) - 100 * (k - 1) ELSE 100)
           /\ \A j \in 1..Len(KeysSent(k)) :
                KeysSent(k)[j] = buildKey(keys[100 * (k - 1) + j], BatchConfig.key)
      /\ pager.yielded =
           Flatten([k \in 1..Len(pager.received) |->
                      toBatchGetResult(pager.received[k], "t")])
      /\ pager.pc = "done" =>
           /\ Len(pager.sent) = (Len(keys) + 99) \div 100
           /\ pager.result["items"] = pager.yielded
      /\ Len(keys) = 0 => (pager.pc = "done" /\ pager.sent = <<>>)

\* 201 keys: three requests of 100, 100 and 1 keys have been answered, the
\* first and the last with items, and their items returned in that order
C29_Witness ==
  /\ pager.pc = "done"
  /\ Len(pager.options.keys) = 201
  /\ Len(pager.sent) = 3
  /\ Len(KeysSent(2)) = 100
  /\ Len(KeysSent(3)) = 1
  /\ Len(toBatchGetResult(pager.received[1], "t")) = 100
  /\ Len(toBatchGetResult(pager.received[2], "t")) = 0
  /\ Len(pager.result["items"]) = 101

----------------------------------------------------------------------------
(* Name placeholders of merged units *)

\* the commands compiled from two units: update and condition, key condition
\* and filter
MergedOps == {"buildUpdateItemCommand", "buildQueryCommand", "buildQueryIndexCommand"}

\* C30: merging the name maps of two compiled units of one request never
\* changes the meaning of a name placeholder: whenever the same placeholder
\* key occurs in both maps (update and condition, key condition and filter),
\* both map it to the same attribute segment, and every name placeholder a
\* unit created maps, in the names of the final command, to the segment it
\* was created for.
C30_MergedNamesKeepMeaning ==
  (cmd.op \in MergedOps /\ cmd.out.res.kind = "ok") =>
    \A units \in {cmd.out.units} :
    \A final \in {GetMap(cmd.out.input, "ExpressionAttributeNames")} :
      /\ \A u, v \in DOMAIN units :
           \A k \in DOMAIN units[u].names \cap DOMAIN units[v].names :
             units[u].names[k] = units[v].names[k]
      /\ \A u \in DOMAIN units :
           \A k \in DOMAIN units[u].names :
             /\ Has(final, k)
             /\ final[k] = units[u].names[k]

\* a query on partition key a with a sort-key condition and the filter
\* eq('a', 'y'): #a occurs in the names of both units, #b in the key
\* condition's only
C30_Witness ==
  /\ cmd.op = "buildQueryCommand"
  /\ cmd.out.res.kind = "ok"
  /\ DOMAIN cmd.out.units = {"key", "filter"}
  /\ Has(cmd.out.units["key"].names, <<"#", "a">>)
  /\ Has(cmd.out.units["key"].names, <<"#", "b">>)
  /\ DOMAIN cmd.out.units["filter"].names = {<<"#", "a">>}
  /\ cmd.out.input["ExpressionAttributeNames"] =
       (<<"#", "a">> :> <<"a">>) @@ (<<"#", "b">> :> <<"b">>)

============================================================================
